---------------------------- MODULE Spec2Model ----------------------------
(***************************************************************************)
(* Model of the OpenXML package validators of comparador-de-carpetas:      *)
(*   revisar_rel.py             (.rels validator)                          *)
(*   revisar_content_types.py   ([Content_Types].xml validator)            *)
(*   revisar_thm15themeFamily.py (same validator, plus variant printing)   *)
(*   inspector_temas_openxml.py (theme discovery and cross references)     *)
(*   extractor_temas.py         (theme discovery)                          *)
(*                                                                         *)
(* A Python str is a sequence of one-character strings, so that the path   *)
(* functions (os.path.dirname, join, normpath, str.endswith, str.lstrip)   *)
(* are computed character by character as posixpath computes them.         *)
(* None is the one-element sequence <<"<None>">>, which is no str.         *)
(***************************************************************************)
EXTENDS Integers, Sequences, FiniteSets, TLC

VARIABLES
    \* ---- resolver harness (SpecResolve)
    owner1,          \* owning part path handed to the resolvers
    owner2,          \* a second owning part path (same target, same root)
    target,          \* raw Target attribute
    package_root,    \* package root directory
    res_inspector,   \* <<resolve_relationship_target(owner1..), (owner2..)>> or <<>>
    res_rels,        \* <<resolve_target_path(owner1..), (owner2..)>> or <<>>
    \* ---- revisar_rel.main / validate_rels_file (SpecValidators)
    paths,           \* the .rels paths selected in the dialog
    fs,              \* the paths that exist on disk
    cur,             \* number of selected files handed to validate_rels_file
    rels_doc,        \* content of the file being validated: [wf, rels]
    pc,              \* position inside validate_rels_file / main
    errors,          \* validate_rels_file's errors list
    ids,             \* validate_rels_file's ids set
    idx,             \* number of Relationship elements already checked
    returned,        \* what the last call of validate_rels_file returned
    \* ---- validate_content_types of revisar_content_types.py and of
    \*      revisar_thm15themeFamily.py (SpecValidators)
    ct_script,       \* which of the two scripts runs
    ct_doc,          \* the [Content_Types].xml: [wf, defaults, overrides]
    ct_base,         \* base_dir
    ct_fs,           \* the paths that exist on disk
    ct_pc,           \* position inside validate_content_types
    ct_errors,       \* errors
    extensions_seen, \* extensions_seen
    partnames_seen,  \* partnames_seen
    ct_idx,          \* elements of the current loop already checked
    theme_variant_part,  \* theme_variant_part (revisar_thm15themeFamily only)
    ct_returned,     \* what validate_content_types returned
    \* ---- inspector_temas_openxml.main (SpecInspect)
    main_base_dir,   \* main's base_dir: what select_base_dir returned
    root_manager,    \* <base_dir>/themeVariants/themeVariantManager.xml: [exists, wf, variants]
    n_themes,        \* number of ThemeFiles find_theme_files yields for base_dir
    in_pc,           \* position inside main
    in_i,            \* number of ThemeFiles already taken from the generator
    found,           \* main's found
    variant_manager_path,  \* main's variant_manager_path
    theme_files,     \* main's loop variable while the loop runs: the ThemeFiles taken last
    all_theme_families,    \* main's all_theme_families
    processed,       \* the themes whose loop body ran to its end
    variants,        \* main's variants
    out,             \* the [OK]/[ERROR]/[ADVERTENCIA] lines printed so far
    exit_code,       \* "running", then the exit status of the process
    \* ---- find_theme_files of inspector_temas_openxml.py and of
    \*      extractor_temas.py (SpecDiscover)
    walk_script,     \* which of the two scripts runs
    walk_base,       \* find_theme_files' base_dir
    disk_dirs,       \* the directories below base_dir
    disk_files,      \* the files below base_dir
    walk_pc,         \* position inside find_theme_files
    walk_stack,      \* os.walk: the directories still to be visited, next first
    walk_visited,    \* the directories os.walk has produced, in order
    yielded,         \* what find_theme_files has yielded, in order
    \* ---- a validator called twice on the same inputs (SpecRerun)
    rr_validator,    \* the validator that is called
    rr_input,        \* the arguments of the calls and the disk they read
    rr_left,         \* the seen-sets the last call built, as it left them
    rr_runs,         \* the diagnostics of the calls made so far, in order
    \* ---- FolderComparator of comparador.py (SpecCompare)
    left_path,       \* self.left_path: the text of the left entry
    right_path,      \* self.right_path
    left_disk,       \* the folder /L as it is on disk now: path -> info
    right_disk,      \* the folder /R as it is on disk
    left_base_path,  \* self.left_base_path
    right_base_path, \* self.right_base_path
    last_left_entries,   \* self._last_left_entries
    last_right_entries,  \* self._last_right_entries
    comparison_data, \* self.comparison_data
    difference_paths,    \* self.difference_paths
    show_differences_only,  \* self.show_differences_only
    left_tree,       \* self.left_tree: each inserted node's path -> the node it hangs under
    right_tree,      \* self.right_tree
    cmp_pc           \* "ready" while the window is open, "idle" when another script runs

resolveVars == <<owner1, owner2, target, package_root, res_inspector, res_rels>>
relsVars    == <<paths, fs, cur, rels_doc, pc, errors, ids, idx, returned>>
ctVars      == <<ct_script, ct_doc, ct_base, ct_fs, ct_pc, ct_errors, extensions_seen,
                 partnames_seen, ct_idx, theme_variant_part, ct_returned>>
inVars      == <<main_base_dir, root_manager, n_themes, in_pc, in_i, found, variant_manager_path,
                 theme_files, all_theme_families, processed, variants, out, exit_code>>
walkVars    == <<walk_script, walk_base, disk_dirs, disk_files, walk_pc, walk_stack,
                 walk_visited, yielded>>
rerunVars   == <<rr_validator, rr_input, rr_left, rr_runs>>
compareVars == <<left_path, right_path, left_disk, right_disk, left_base_path,
                 right_base_path, last_left_entries, last_right_entries,
                 comparison_data, difference_paths, show_differences_only,
                 left_tree, right_tree, cmp_pc>>
vars        == <<resolveVars, relsVars, ctVars, inVars, walkVars, rerunVars, compareVars>>

---------------------------------------------------------------------------
\* Bounds of the model.
MaxOwnerDirs   == 2   \* directories between the package root and the owning part
MaxTargetSegs  == 2   \* path segments of a raw Target
MaxRels        == 2   \* Relationship elements of one .rels part
MaxCTElems     == 3   \* Default plus Override elements of one [Content_Types].xml
MaxThemes      == 3   \* theme/theme folders with a theme1.xml under the root
MaxVariants    == 2   \* themeVariant elements of themeVariantManager.xml
MaxEntries     == 5   \* directories and files below the root of a walk
MaxDepth       == 2   \* nested entries below a compared folder

---------------------------------------------------------------------------
\* Python values.
None  == <<"<None>">>
Empty == <<>>
SL    == <<"/">>
BSL   == <<"\\">>
Dot   == <<".">>
DotDot == <<".", ".">>

\* bool(v) of a str or None
Truthy(v) == v # None /\ v # Empty

n_pkg     == <<"p", "k", "g">>
n_alt     == <<"a", "l", "t">>
n_theme   == <<"t", "h", "e", "m", "e">>
n_rels    == <<"_", "r", "e", "l", "s">>
n_my_rels == <<"m", "y", "_", "r", "e", "l", "s">>
n_sub     == <<"s", "u", "b">>
n_a_rels  == <<"a", ".", "r", "e", "l", "s">>
n_a_xml   == <<"a", ".", "x", "m", "l">>
n_b_xml   == <<"b", ".", "x", "m", "l">>
n_missing == <<"m", "i", "s", "s", "i", "n", "g", ".", "x", "m", "l">>

\* str.startswith / str.endswith
StartsWith(s, pre) ==
    Len(pre) <= Len(s) /\ SubSeq(s, 1, Len(pre)) = pre
EndsWith(s, suf) ==
    Len(suf) <= Len(s) /\ SubSeq(s, Len(s) - Len(suf) + 1, Len(s)) = suf

\* str.lstrip(chars) / str.rstrip(chars), chars a set of characters
RECURSIVE LStrip(_, _)
LStrip(s, chars) ==
    IF s # <<>> /\ Head(s) \in chars THEN LStrip(Tail(s), chars) ELSE s
RECURSIVE RStrip(_, _)
RStrip(s, chars) ==
    IF s # <<>> /\ s[Len(s)] \in chars
    THEN RStrip(SubSeq(s, 1, Len(s) - 1), chars) ELSE s

\* str.rfind('/') + 1: the index just after the last slash, 0 without one
RFindSlash(s) ==
    LET hits == {i \in 1..Len(s) : s[i] = "/"}
    IN  IF hits = {} THEN 0 ELSE CHOOSE i \in hits : \A j \in hits : j <= i

\* str.split('/')
RECURSIVE SplitSlash(_)
SplitSlash(s) ==
    LET hits == {i \in 1..Len(s) : s[i] = "/"}
    IN  IF hits = {} THEN <<s>>
        ELSE LET i == CHOOSE k \in hits : \A j \in hits : k <= j
             IN  <<SubSeq(s, 1, i - 1)>> \o SplitSlash(SubSeq(s, i + 1, Len(s)))

\* '/'.join(comps)
RECURSIVE JoinSlash(_)
JoinSlash(comps) ==
    IF comps = <<>> THEN <<>>
    ELSE IF Len(comps) = 1 THEN comps[1]
    ELSE comps[1] \o SL \o JoinSlash(Tail(comps))

\* posixpath.dirname
dirname(p) ==
    LET i    == RFindSlash(p)
        head == SubSeq(p, 1, i)
    IN  IF head # <<>> /\ (\E k \in 1..Len(head) : head[k] # "/")
        THEN RStrip(head, {"/"}) ELSE head

\* posixpath.basename
basename(p) == SubSeq(p, RFindSlash(p) + 1, Len(p))

\* posixpath.join(a, b)
join(a, b) ==
    IF StartsWith(b, SL) THEN b
    ELSE IF a = <<>> \/ EndsWith(a, SL) THEN a \o b
    ELSE a \o SL \o b

\* the loop of posixpath.normpath over the components
RECURSIVE NormComps(_, _, _)
NormComps(comps, new_comps, initial_slashes) ==
    IF comps = <<>> THEN new_comps
    ELSE LET comp == Head(comps)
         IN  IF comp = <<>> \/ comp = Dot
             THEN NormComps(Tail(comps), new_comps, initial_slashes)
             ELSE IF \/ comp # DotDot
                     \/ (initial_slashes = 0 /\ new_comps = <<>>)
                     \/ (new_comps # <<>> /\ new_comps[Len(new_comps)] = DotDot)
             THEN NormComps(Tail(comps), Append(new_comps, comp), initial_slashes)
             ELSE IF new_comps # <<>>
             THEN NormComps(Tail(comps), SubSeq(new_comps, 1, Len(new_comps) - 1),
                            initial_slashes)
             ELSE NormComps(Tail(comps), new_comps, initial_slashes)

\* posixpath.normpath
normpath(path) ==
    IF path = <<>> THEN Dot
    ELSE LET initial_slashes ==
                 IF ~StartsWith(path, SL) THEN 0
                 ELSE IF StartsWith(path, SL \o SL) /\ ~StartsWith(path, SL \o SL \o SL)
                 THEN 2 ELSE 1
             comps == NormComps(SplitSlash(path), <<>>, initial_slashes)
             body  == JoinSlash(comps)
             full  == IF initial_slashes = 2 THEN SL \o SL \o body
                      ELSE IF initial_slashes = 1 THEN SL \o body
                      ELSE body
         IN  IF full = <<>> THEN Dot ELSE full

---------------------------------------------------------------------------
\* The two relationship-target resolvers.

\* revisar_rel.resolve_target_path with the "_rels" test dropped
resolve_target_path_NoRelsException(rels_path, tgt) ==
    normpath(join(dirname(rels_path), tgt))

\* revisar_rel.resolve_target_path that keeps the base for a rooted target
resolve_target_path_KeepsBase(rels_path, tgt) ==
    LET rels_dir == dirname(rels_path)
        base_dir == IF EndsWith(rels_dir, n_rels) THEN dirname(rels_dir) ELSE rels_dir
    IN  normpath(base_dir \o SL \o tgt)

resolve_target_path(rels_path, tgt) ==
    LET rels_dir == dirname(rels_path)
        base_dir == IF EndsWith(rels_dir, n_rels) THEN dirname(rels_dir) ELSE rels_dir
    IN  normpath(join(base_dir, tgt))

resolve_relationship_target(rels_path, tgt, root) ==
    LET rels_dir == dirname(rels_path)
        base_dir == IF EndsWith(rels_dir, n_rels) THEN dirname(rels_dir) ELSE rels_dir
    IN  IF StartsWith(tgt, SL)
        THEN IF Truthy(root)
             THEN normpath(join(root, LStrip(tgt, {"/"})))
             ELSE normpath(join(base_dir, LStrip(tgt, {"/"})))
        ELSE normpath(join(base_dir, tgt))

---------------------------------------------------------------------------
\* Values of the variables of the programs a specification does not run.
\* main's theme_files outside the loop, where it is not read
NoThemeFiles == [theme_path |-> None, variant_manager_path |-> None]

IdleResolve ==
    /\ owner1 = <<>> /\ owner2 = <<>> /\ target = <<>> /\ package_root = <<>>
    /\ res_inspector = <<>> /\ res_rels = <<>>
IdleRels ==
    /\ paths = <<>> /\ fs = {} /\ cur = 0 /\ rels_doc = <<>> /\ pc = "idle"
    /\ errors = <<>> /\ ids = {} /\ idx = 0 /\ returned = None
IdleCT ==
    /\ ct_script = "none" /\ ct_doc = <<>> /\ ct_base = <<>> /\ ct_fs = {}
    /\ ct_pc = "idle" /\ ct_errors = <<>> /\ extensions_seen = {}
    /\ partnames_seen = {} /\ ct_idx = 0 /\ theme_variant_part = None
    /\ ct_returned = None
NoRootManager == [exists |-> FALSE, wf |-> FALSE, variants |-> <<>>]
IdleInspect ==
    /\ main_base_dir = <<>> /\ n_themes = 0 /\ in_pc = "idle" /\ in_i = 0
    /\ root_manager = NoRootManager
    /\ found = FALSE /\ variant_manager_path = None
    /\ theme_files = NoThemeFiles
    /\ all_theme_families = <<>> /\ processed = {} /\ variants = <<>>
    /\ out = <<>> /\ exit_code = "running"
IdleWalk ==
    /\ walk_script = "none" /\ walk_base = <<>> /\ disk_dirs = {}
    /\ disk_files = {} /\ walk_pc = "idle" /\ walk_stack = <<>>
    /\ walk_visited = <<>> /\ yielded = <<>>
IdleRerun ==
    /\ rr_validator = "none" /\ rr_input = <<>> /\ rr_left = <<>> /\ rr_runs = <<>>
\* comparador.py lines 41-42: _last_left_entries / _last_right_entries are None
\* until a comparison is loaded (no scan gives the key None)
NoEntries == [p \in {None} |-> [type |-> "none", size |-> None]]
IdleCompare ==
    /\ left_path = <<>> /\ right_path = <<>> /\ left_disk = <<>> /\ right_disk = <<>>
    /\ left_base_path = None /\ right_base_path = None
    /\ last_left_entries = NoEntries /\ last_right_entries = NoEntries
    /\ comparison_data = <<>> /\ difference_paths = {}
    /\ show_differences_only = FALSE
    /\ left_tree = <<>> /\ right_tree = <<>> /\ cmp_pc = "idle"

---------------------------------------------------------------------------
\* SpecResolve: the two resolvers applied to the same Target from two owning
\* parts of one package.

Roots    == {SL \o n_pkg, SL \o n_alt}
DirNames == {n_theme, n_rels, n_my_rels}
SegNames == {DotDot, n_a_xml, n_sub}

\* all sequences of 0..n elements of S
SeqsUpTo(S, n) == UNION {[1..k -> S] : k \in 0..n}

\* "/d1/d2/.." for a sequence of directory names
RECURSIVE UnderDirs(_)
UnderDirs(ds) == IF ds = <<>> THEN <<>> ELSE SL \o Head(ds) \o UnderDirs(Tail(ds))

OwnersUnder(root, n) ==
    {root \o UnderDirs(ds) \o SL \o n_a_rels : ds \in SeqsUpTo(DirNames, n)}

\* raw Targets: 0, 1 or 2 leading slashes, then 1..MaxTargetSegs segments
RawTargets ==
    {lead \o JoinSlash(segs) :
        lead \in {<<>>, SL, SL \o SL},
        segs \in SeqsUpTo(SegNames, MaxTargetSegs) \ {<<>>}}

InitResolve ==
    /\ package_root \in Roots
    /\ owner1 \in OwnersUnder(package_root, MaxOwnerDirs)
    /\ owner2 \in OwnersUnder(package_root, 1)
    /\ target \in RawTargets
    /\ res_inspector = <<>>
    /\ res_rels = <<>>
    /\ IdleRels /\ IdleCT /\ IdleInspect /\ IdleWalk /\ IdleRerun /\ IdleCompare

\* inspector_temas_openxml.validate_variant_manager_links, line 223
ResolveRelationshipTarget ==
    /\ res_inspector = <<>>
    /\ res_inspector' = <<resolve_relationship_target(owner1, target, package_root),
                          resolve_relationship_target(owner2, target, package_root)>>
    /\ UNCHANGED <<owner1, owner2, target, package_root, res_rels>>
    /\ UNCHANGED <<relsVars, ctVars, inVars, walkVars, rerunVars, compareVars>>

\* revisar_rel.validate_rels_file, line 96
ResolveTargetPath ==
    /\ res_rels = <<>>
    /\ res_rels' = <<resolve_target_path(owner1, target),
                     resolve_target_path(owner2, target)>>
    /\ UNCHANGED <<owner1, owner2, target, package_root, res_inspector>>
    /\ UNCHANGED <<relsVars, ctVars, inVars, walkVars, rerunVars, compareVars>>

NextResolve == ResolveRelationshipTarget \/ ResolveTargetPath

SpecResolve == InitResolve /\ [][NextResolve]_vars

\* The normalized path has no empty, "." or ".." component after its root.
Collapsed(p) ==
    LET body == LStrip(p, {"/"})
    IN  body = <<>> \/ \A k \in 1..Len(SplitSlash(body)) :
                           SplitSlash(body)[k] \notin {<<>>, Dot, DotDot}

\* C1: for a Target that starts with "/", both resolvers return
\* normpath(package root joined with the Target stripped of its leading
\* separators).  Stated as the claim has it; resolve_target_path breaks it.
C1_AbsoluteTargetUnderRoot ==
    StartsWith(target, SL) =>
        \A res \in {res_inspector, res_rels} :
            res # <<>> =>
                res[1] = normpath(join(package_root, LStrip(target, {"/"})))

\* C2: for a Target that starts with "/", the result of either resolver is
\* the same for the two owning parts, whatever their directories.
C2_AbsoluteIgnoresOwner ==
    StartsWith(target, SL) =>
        /\ res_inspector # <<>> => res_inspector[1] = res_inspector[2]
        /\ res_rels # <<>> => res_rels[1] = res_rels[2]

\* an absolute Target resolved by both resolvers from two owning parts whose
\* base directories differ
C2_Witness ==
    /\ target = SL \o n_sub \o SL \o n_a_xml
    /\ owner1 = package_root \o SL \o n_theme \o SL \o n_theme \o SL \o n_a_rels
    /\ owner2 = package_root \o SL \o n_a_rels
    /\ res_inspector # <<>> /\ res_rels # <<>>
    /\ res_inspector[1] = package_root \o SL \o n_sub \o SL \o n_a_xml

C4_OnlyExactRelsUsesParent ==
    (basename(dirname(owner1)) # n_rels /\ ~StartsWith(target, SL)) =>
        \A res \in {res_inspector, res_rels} :
            res # <<>> => res[1] = normpath(join(dirname(owner1), target))

---------------------------------------------------------------------------
\* revisar_rel.main over the selected .rels files, each handed to
\* validate_rels_file.  A diagnostic is the message appended to errors:
\* its severity (the "[ERROR" or "[OK]" prefix), which message it is, and the
\* value formatted into it.

ERR(kind, arg) == [sev |-> "ERROR", kind |-> kind, arg |-> arg]
OKMSG          == [sev |-> "OK", kind |-> "Clean", arg |-> None]

v_rId1 == <<"r", "I", "d", "1">>
v_rId2 == <<"r", "I", "d", "2">>
v_type == <<"t", "h", "e", "m", "e">>

p_rels_A == SL \o n_pkg \o SL \o n_theme \o SL \o n_rels \o SL \o n_a_rels
p_rels_B == SL \o n_pkg \o SL \o n_rels \o SL \o n_a_rels

\* the extracted package on disk
RelsDisk ==
    { SL \o n_pkg,
      SL \o n_pkg \o SL \o n_a_xml,
      SL \o n_pkg \o SL \o n_rels,
      p_rels_B,
      SL \o n_pkg \o SL \o n_theme,
      SL \o n_pkg \o SL \o n_theme \o SL \o n_a_xml,
      SL \o n_pkg \o SL \o n_theme \o SL \o n_rels,
      p_rels_A }

\* the attributes of one <Relationship>; None is an absent attribute
RelElems ==
    [Id     : {None, Empty, v_rId1, v_rId2},
     Type   : {None, v_type},
     Target : {None, n_a_xml, DotDot \o SL \o n_missing}]

\* a file: well formed with its Relationship elements (those findall
\* returns, line 48), or not well formed
\* (rels is then what the text of the file holds, which ET.parse never yields)
RelsDocs ==
    {[wf |-> TRUE, rels |-> r] : r \in SeqsUpTo(RelElems, MaxRels)}
    \cup {[wf |-> FALSE, rels |-> r] : r \in SeqsUpTo(RelElems, 1)}

Selections == {<<>>, <<p_rels_A>>, <<p_rels_A, p_rels_B>>}

\* os.path.exists
exists(disk, path) == path \in disk

\* lines 63-75 with a duplicate Id accepted
IdCheck_NoDuplicateTest(rid, seen) ==
    IF ~Truthy(rid) THEN <<ERR("NoId", None)>> ELSE <<>>

\* lines 63-75: the Id verification
IdCheck(rid, seen) ==
    IF ~Truthy(rid) THEN <<ERR("NoId", None)>>
    ELSE IF rid \in seen THEN <<ERR("DupId", rid)>>
    ELSE <<>>

\* lines 69-74: ids after the Id verification
IdsAfter(rid, seen) ==
    IF Truthy(rid) /\ rid \notin seen THEN seen \cup {rid} ELSE seen

\* lines 79-84: the Type verification
TypeCheck(rid, rtype) ==
    IF ~Truthy(rtype) THEN <<ERR("NoType", rid)>> ELSE <<>>

\* lines 88-104 with the existence test inverted
TargetCheck_ExistsInverted(path, rid, rtarget, disk) ==
    IF ~Truthy(rtarget) THEN <<ERR("NoTarget", rid)>>
    ELSE LET resolved_path == resolve_target_path(path, rtarget)
         IN  IF exists(disk, resolved_path)
             THEN <<ERR("NotFound", resolved_path)>> ELSE <<>>

\* lines 88-104: the Target verification and the existence of the file
TargetCheck(path, rid, rtarget, disk) ==
    IF ~Truthy(rtarget) THEN <<ERR("NoTarget", rid)>>
    ELSE LET resolved_path == resolve_target_path(path, rtarget)
         IN  IF exists(disk, resolved_path)
             THEN <<>> ELSE <<ERR("NotFound", resolved_path)>>

\* lines 54-104 stopping at the first failed check of the element
RelationshipErrors_FailFast(path, rel, seen, disk) ==
    IF IdCheck(rel.Id, seen) # <<>> THEN IdCheck(rel.Id, seen)
    ELSE IF TypeCheck(rel.Id, rel.Type) # <<>> THEN TypeCheck(rel.Id, rel.Type)
    ELSE TargetCheck(path, rel.Id, rel.Target, disk)

\* lines 54-104 with the Target verification made before those of Id and Type
RelationshipErrors_TargetFirst(path, rel, seen, disk) ==
    TargetCheck(path, rel.Id, rel.Target, disk)
        \o IdCheck(rel.Id, seen)
        \o TypeCheck(rel.Id, rel.Type)

\* lines 54-104: what one iteration of the loop appends to errors
RelationshipErrors(path, rel, seen, disk) ==
    IdCheck(rel.Id, seen)
        \o TypeCheck(rel.Id, rel.Type)
        \o TargetCheck(path, rel.Id, rel.Target, disk)

\* lines 34-40 with a part without Relationship elements refused as if it
\* were not well formed
ParseErrors_EmptyIsMalformed(doc) ==
    IF doc.wf /\ doc.rels # <<>> THEN <<>> ELSE <<ERR("XML", None)>>

\* lines 34-40 with the parse failure swallowed
ParseErrors_Swallowed(doc) == <<>>

\* lines 34-40: what the try/except around ET.parse appends to errors
ParseErrors(doc) ==
    IF doc.wf THEN <<>> ELSE <<ERR("XML", None)>>

\* lines 109-116 with the OK appended whatever errors holds
FinalErrors_AlwaysOK(errs) == Append(errs, OKMSG)

\* lines 109-116: the list returned at the end
FinalErrors(errs) ==
    IF errs = <<>> THEN Append(errs, OKMSG) ELSE errs

InitRels ==
    /\ paths \in Selections
    /\ fs = RelsDisk
    /\ cur = 0
    /\ rels_doc = <<>>
    /\ pc = "main"
    /\ errors = <<>>
    /\ ids = {}
    /\ idx = 0
    /\ returned = None

\* main, lines 127-129: nothing selected
MainNothingSelected ==
    /\ pc = "main" /\ paths = <<>>
    /\ pc' = "exit"
    /\ UNCHANGED <<paths, fs, cur, rels_doc, errors, ids, idx, returned>>
    /\ UNCHANGED <<resolveVars, ctVars, inVars, walkVars, rerunVars, compareVars>>

\* main, lines 131-132: the loop over the selected files is over
MainLoopEnd ==
    /\ pc = "main" /\ paths # <<>> /\ cur = Len(paths)
    /\ pc' = "exit"
    /\ UNCHANGED <<paths, fs, cur, rels_doc, errors, ids, idx, returned>>
    /\ UNCHANGED <<resolveVars, ctVars, inVars, walkVars, rerunVars, compareVars>>

\* main line 132 and validate_rels_file lines 30-52: the call, ET.parse of
\* the file as it is on disk, and the return on a ParseError
ValidateRelsParse ==
    /\ pc = "main" /\ cur < Len(paths)
    /\ \E doc \in RelsDocs :
        /\ rels_doc' = doc
        /\ errors' = ParseErrors(doc)
        /\ IF errors' # <<>>
           THEN pc' = "returned" /\ returned' = errors'
           ELSE pc' = "loop" /\ returned' = None
    /\ cur' = cur + 1
    /\ ids' = {}
    /\ idx' = 0
    /\ UNCHANGED <<paths, fs>>
    /\ UNCHANGED <<resolveVars, ctVars, inVars, walkVars, rerunVars, compareVars>>

\* validate_rels_file lines 54-104: one iteration of the loop
ValidateRelationship ==
    /\ pc = "loop" /\ idx < Len(rels_doc.rels)
    /\ LET rel == rels_doc.rels[idx + 1]
       IN  /\ errors' = errors \o RelationshipErrors(paths[cur], rel, ids, fs)
           /\ ids' = IdsAfter(rel.Id, ids)
    /\ idx' = idx + 1
    /\ UNCHANGED <<paths, fs, cur, rels_doc, pc, returned>>
    /\ UNCHANGED <<resolveVars, ctVars, inVars, walkVars, rerunVars, compareVars>>

\* validate_rels_file lines 106-116: the final result and the return
ValidateRelsReturn ==
    /\ pc = "loop" /\ idx = Len(rels_doc.rels)
    /\ errors' = FinalErrors(errors)
    /\ returned' = errors'
    /\ pc' = "returned"
    /\ UNCHANGED <<paths, fs, cur, rels_doc, ids, idx>>
    /\ UNCHANGED <<resolveVars, ctVars, inVars, walkVars, rerunVars, compareVars>>

\* main line 132: the returned list is dropped, the locals of the call are
\* gone, the loop goes on
MainDropsResult ==
    /\ pc = "returned"
    /\ pc' = "main"
    /\ returned' = None
    /\ rels_doc' = <<>>
    /\ errors' = <<>>
    /\ ids' = {}
    /\ idx' = 0
    /\ UNCHANGED <<paths, fs, cur>>
    /\ UNCHANGED <<resolveVars, ctVars, inVars, walkVars, rerunVars, compareVars>>

---------------------------------------------------------------------------
\* validate_content_types, as revisar_content_types.py and
\* revisar_thm15themeFamily.py have it (the second also remembers the
\* Override of themeVariantManager.xml and prints that file at the end).

n_tvm == <<"t", "h", "e", "m", "e", "V", "a", "r", "i", "a", "n", "t",
           "M", "a", "n", "a", "g", "e", "r", ".", "x", "m", "l">>
n_tvm_lower == <<"t", "h", "e", "m", "e", "v", "a", "r", "i", "a", "n", "t",
                 "m", "a", "n", "a", "g", "e", "r", ".", "x", "m", "l">>
v_xml   == <<"x", "m", "l">>
v_XML   == <<"X", "M", "L">>
v_ctype == <<"a", "p", "p", "/", "x", "m", "l">>

\* str.lower, one character
LowerChar(c) ==
    LET up == <<"A", "B", "C", "D", "E", "F", "G", "H", "I", "J", "K", "L", "M",
                "N", "O", "P", "Q", "R", "S", "T", "U", "V", "W", "X", "Y", "Z">>
        lo == <<"a", "b", "c", "d", "e", "f", "g", "h", "i", "j", "k", "l", "m",
                "n", "o", "p", "q", "r", "s", "t", "u", "v", "w", "x", "y", "z">>
    IN  IF \E k \in 1..Len(up) : up[k] = c
        THEN lo[CHOOSE k \in 1..Len(up) : up[k] = c] ELSE c

\* str.lower
lower(str) == [k \in 1..Len(str) |-> LowerChar(str[k])]

CTDisk == RelsDisk \cup {SL \o n_pkg \o SL \o n_tvm}

DefaultElems ==
    [Extension : {None, v_xml, v_XML}, ContentType : {None, v_ctype}]

OverrideElems ==
    [PartName    : {None, SL \o n_a_xml, SL \o n_tvm, SL \o n_missing},
     ContentType : {None, v_ctype}]

\* the documents with at most MaxCTElems elements, well formed or not
CTDocs ==
    UNION {{[wf |-> w, defaults |-> d, overrides |-> o] :
                w \in BOOLEAN,
                d \in [1..nd -> DefaultElems],
                o \in SeqsUpTo(OverrideElems, MaxCTElems - nd)} :
           nd \in 0..MaxCTElems}

\* resolve_part_path without the lstrip of the leading separators
resolve_part_path_KeepsSeparators(base_dir, part_name) ==
    normpath(join(base_dir, part_name))

\* resolve_part_path (the same in both scripts)
resolve_part_path(base_dir, part_name) ==
    normpath(join(base_dir, LStrip(part_name, {"/", "\\"})))

\* lines 52-71 with the Extension compared without regard to letter case
DefaultErrors_IgnoresCase(default, seen) ==
    (IF ~Truthy(default.Extension) THEN <<ERR("NoExtension", None)>>
     ELSE IF lower(default.Extension) \in {lower(e) : e \in seen}
     THEN <<ERR("DupExtension", default.Extension)>>
     ELSE <<>>)
    \o (IF ~Truthy(default.ContentType)
        THEN <<ERR("NoDefaultContentType", None)>> ELSE <<>>)

\* revisar_content_types.py lines 52-71: what one <Default> appends
DefaultErrors(default, seen) ==
    (IF ~Truthy(default.Extension) THEN <<ERR("NoExtension", None)>>
     ELSE IF default.Extension \in seen
     THEN <<ERR("DupExtension", default.Extension)>>
     ELSE <<>>)
    \o (IF ~Truthy(default.ContentType)
        THEN <<ERR("NoDefaultContentType", None)>> ELSE <<>>)

\* lines 58-63: extensions_seen after one <Default>
ExtensionsAfter(default, seen) ==
    IF Truthy(default.Extension) /\ default.Extension \notin seen
    THEN seen \cup {default.Extension} ELSE seen

\* lines 80-109: what one <Override> appends
OverrideErrors(base_dir, override, seen, disk) ==
    (IF ~Truthy(override.PartName) THEN <<ERR("NoPartName", None)>>
     ELSE (IF override.PartName \in seen
           THEN <<ERR("DupPartName", override.PartName)>> ELSE <<>>)
          \o (IF exists(disk, resolve_part_path(base_dir, override.PartName))
              THEN <<>>
              ELSE <<ERR("NotFound", resolve_part_path(base_dir, override.PartName))>>))
    \o (IF ~Truthy(override.ContentType)
        THEN <<ERR("NoOverrideContentType", None)>> ELSE <<>>)

\* lines 86-91 with the PartName never added to partnames_seen
PartNamesAfter_NeverAdds(override, seen) == seen

\* lines 86-91: partnames_seen after one <Override>
PartNamesAfter(override, seen) ==
    IF Truthy(override.PartName) /\ override.PartName \notin seen
    THEN seen \cup {override.PartName} ELSE seen

\* revisar_thm15themeFamily.py lines 88-89: theme_variant_part after one
\* <Override>
ThemeVariantPartAfter(override, tvp) ==
    IF Truthy(override.PartName)
       /\ EndsWith(lower(override.PartName), n_tvm_lower)
    THEN override.PartName ELSE tvp

\* lines 29-36: what the try/except around ET.parse appends to errors
CTParseErrors(doc) ==
    IF doc.wf THEN <<>> ELSE <<ERR("XML", None)>>

\* lines 114-121: the list returned at the end
CTFinalErrors(errs) ==
    IF errs = <<>> THEN Append(errs, OKMSG) ELSE errs

InitCT ==
    /\ ct_script \in {"revisar_content_types", "revisar_thm15themeFamily"}
    /\ ct_doc \in CTDocs
    /\ ct_base = SL \o n_pkg
    /\ ct_fs = CTDisk
    /\ ct_pc = "start"
    /\ ct_errors = <<>>
    /\ extensions_seen = {}
    /\ partnames_seen = {}
    /\ ct_idx = 0
    /\ theme_variant_part = None
    /\ ct_returned = None

\* lines 26-46: ET.parse, the return on a ParseError, the start of the
\* <Default> loop
ValidateCTParse ==
    /\ ct_pc = "start"
    /\ ct_errors' = CTParseErrors(ct_doc)
    /\ IF ct_errors' # <<>>
       THEN ct_pc' = "returned" /\ ct_returned' = ct_errors'
       ELSE ct_pc' = "defaults" /\ ct_returned' = None
    /\ extensions_seen' = {}
    /\ ct_idx' = 0
    /\ UNCHANGED <<ct_script, ct_doc, ct_base, ct_fs, partnames_seen,
                   theme_variant_part>>
    /\ UNCHANGED <<resolveVars, relsVars, inVars, walkVars, rerunVars, compareVars>>

\* lines 47-71: one iteration of the <Default> loop
ValidateDefault ==
    /\ ct_pc = "defaults" /\ ct_idx < Len(ct_doc.defaults)
    /\ LET default == ct_doc.defaults[ct_idx + 1]
       IN  /\ ct_errors' = ct_errors \o DefaultErrors(default, extensions_seen)
           /\ extensions_seen' = ExtensionsAfter(default, extensions_seen)
    /\ ct_idx' = ct_idx + 1
    /\ UNCHANGED <<ct_script, ct_doc, ct_base, ct_fs, ct_pc, partnames_seen,
                   theme_variant_part, ct_returned>>
    /\ UNCHANGED <<resolveVars, relsVars, inVars, walkVars, rerunVars, compareVars>>

\* lines 73-75: the <Default> loop is over, the <Override> loop starts
ValidateOverridesBegin ==
    /\ ct_pc = "defaults" /\ ct_idx = Len(ct_doc.defaults)
    /\ ct_pc' = "overrides"
    /\ partnames_seen' = {}
    /\ theme_variant_part' = None
    /\ ct_idx' = 0
    /\ UNCHANGED <<ct_script, ct_doc, ct_base, ct_fs, ct_errors, extensions_seen,
                   ct_returned>>
    /\ UNCHANGED <<resolveVars, relsVars, inVars, walkVars, rerunVars, compareVars>>

\* lines 75-109: one iteration of the <Override> loop
ValidateOverride ==
    /\ ct_pc = "overrides" /\ ct_idx < Len(ct_doc.overrides)
    /\ LET override == ct_doc.overrides[ct_idx + 1]
       IN  /\ ct_errors' = ct_errors
                 \o OverrideErrors(ct_base, override, partnames_seen, ct_fs)
           /\ partnames_seen' = PartNamesAfter(override, partnames_seen)
           /\ theme_variant_part' =
                 IF ct_script = "revisar_thm15themeFamily"
                 THEN ThemeVariantPartAfter(override, theme_variant_part)
                 ELSE theme_variant_part
    /\ ct_idx' = ct_idx + 1
    /\ UNCHANGED <<ct_script, ct_doc, ct_base, ct_fs, ct_pc, extensions_seen,
                   ct_returned>>
    /\ UNCHANGED <<resolveVars, relsVars, inVars, walkVars, rerunVars, compareVars>>

\* lines 111-121: the final result and the return (revisar_thm15themeFamily
\* prints the variant manager before it returns, which changes no state)
ValidateCTReturn ==
    /\ ct_pc = "overrides" /\ ct_idx = Len(ct_doc.overrides)
    /\ ct_errors' = CTFinalErrors(ct_errors)
    /\ ct_returned' = ct_errors'
    /\ ct_pc' = "returned"
    /\ UNCHANGED <<ct_script, ct_doc, ct_base, ct_fs, extensions_seen,
                   partnames_seen, ct_idx, theme_variant_part>>
    /\ UNCHANGED <<resolveVars, relsVars, inVars, walkVars, rerunVars, compareVars>>

---------------------------------------------------------------------------
\* SpecValidators: a run of revisar_rel.py, of revisar_content_types.py or of
\* revisar_thm15themeFamily.py.

InitValidators ==
    /\ IdleResolve /\ IdleInspect /\ IdleWalk /\ IdleRerun /\ IdleCompare
    /\ \/ InitRels /\ IdleCT
       \/ IdleRels /\ InitCT

NextValidators ==
    \/ MainNothingSelected
    \/ MainLoopEnd
    \/ ValidateRelsParse
    \/ ValidateRelationship
    \/ ValidateRelsReturn
    \/ MainDropsResult
    \/ ValidateCTParse
    \/ ValidateDefault
    \/ ValidateOverridesBegin
    \/ ValidateOverride
    \/ ValidateCTReturn

SpecValidators == InitValidators /\ [][NextValidators]_vars

---------------------------------------------------------------------------
\* SpecInspect: inspector_temas_openxml.main.  find_theme_files is a lazy
\* generator and every file is read when its turn comes, so the content of a
\* theme1.xml, of themeVariantManager.xml and of its .rels is drawn when main
\* reads it.

n_theme1 == <<"t", "h", "e", "m", "e", "1", ".", "x", "m", "l">>
n_themeVariants == <<"t", "h", "e", "m", "e", "V", "a", "r", "i", "a", "n", "t", "s">>
n_dotrels == <<".", "r", "e", "l", "s">>
v_idA  == <<"{", "A", "}">>
v_idB  == <<"{", "B", "}">>
v_vid9 == <<"9">>
v_vid7 == <<"7">>
v_name == <<"O", "f", "f", "i", "c", "e">>

Digits == <<"1", "2", "3", "4", "5", "6", "7", "8", "9">>

\* the i-th theme/theme folder under the root, in the order of os.walk
ThemeDir(i) ==
    SL \o n_pkg \o SL \o <<"d", Digits[i]>> \o SL \o n_theme \o SL \o n_theme

\* line 67: os.path.join(base_dir, "themeVariants", "themeVariantManager.xml")
RootManagerPath == SL \o n_pkg \o SL \o n_themeVariants \o SL \o n_tvm

\* the ThemeFiles find_theme_files can yield for the i-th folder (lines
\* 58-74): theme1.xml, and the first existing candidate: the variant manager
\* of the folder if there is one, else the one of the root.  A package with
\* a variant manager at the root has none in its theme folders.
ThemeFilesOf(i) ==
    {[theme_path |-> ThemeDir(i) \o SL \o n_theme1, variant_manager_path |-> v] :
        v \in IF root_manager.exists
               THEN {RootManagerPath}
               ELSE {None, ThemeDir(i) \o SL \o n_themeVariants \o SL \o n_tvm}}

\* a theme1.xml: not well formed, or with at most one <themeFamily>
ThemeDocs ==
    {[wf |-> FALSE, families |-> <<>>], [wf |-> TRUE, families |-> <<>>]}
    \cup {[wf |-> TRUE, families |-> <<[name |-> v_name, id |-> i, vid |-> v]>>] :
             i \in {v_idA, v_idB}, v \in {None, v_vid9}}

\* a themeVariantManager.xml: not well formed, or its <themeVariant> elements
VariantElems == [name : {v_name}, vid : {None, v_vid9, v_vid7}, rel_id : {v_rId1}]

VariantDocs ==
    {[wf |-> FALSE, variants |-> <<>>]}
    \cup {[wf |-> TRUE, variants |-> v] : v \in SeqsUpTo(VariantElems, MaxVariants)}

\* what the root of the package holds as themeVariants/themeVariantManager.xml
RootManagers ==
    {NoRootManager}
    \cup {[exists |-> TRUE, wf |-> d.wf, variants |-> d.variants] : d \in VariantDocs}

\* read_xml_as_string / extract_variant_vids, lines 286-292 and 143-165: the
\* documents the file at vm_path can be read as
ReadVariantManager(vm_path) ==
    IF vm_path = RootManagerPath
    THEN {[wf |-> root_manager.wf, variants |-> root_manager.variants]}
    ELSE VariantDocs

\* _rels/themeVariantManager.xml.rels: absent, not well formed, or with at
\* most one <Relationship>
LinkDocs ==
    {[exists |-> FALSE, wf |-> FALSE, rels |-> <<>>],
     [exists |-> TRUE, wf |-> FALSE, rels |-> <<>>],
     [exists |-> TRUE, wf |-> TRUE, rels |-> <<>>]}
    \cup {[exists |-> TRUE, wf |-> TRUE,
           rels |-> <<[Id |-> v_rId1, Target |-> t]>>] :
             t \in {None, SL \o n_a_xml, SL \o n_missing}}

\* extract_theme_families, lines 123-140: the records of one theme1.xml
extract_theme_families(doc, file_path) ==
    [k \in 1..Len(doc.families) |->
        [name |-> doc.families[k].name, id |-> doc.families[k].id,
         vid |-> doc.families[k].vid, source |-> file_path]]

\* lines 239-245: family_by_vid.get(vid, []), in the order of theme_families
linked_families(vid, theme_families) ==
    LET Shares(family) == family.vid = vid
    IN  SelectSeq(theme_families, Shares)

\* lines 243-259 with the first family of a repeated vid taken as the match
VariantVidLine_FirstMatch(variant, theme_families) ==
    LET linked == linked_families(variant.vid, theme_families)
    IN  IF linked = <<>>
        THEN [sev |-> "ERROR", kind |-> "VidNotFound", arg |-> variant.vid]
        ELSE [sev |-> "OK", kind |-> "VidMatches", arg |-> variant.vid,
              name |-> linked[1].name, source |-> linked[1].source]

\* lines 243-259: the line printed for one variant
VariantVidLine(variant, theme_families) ==
    LET linked == linked_families(variant.vid, theme_families)
    IN  IF linked = <<>>
        THEN [sev |-> "ERROR", kind |-> "VidNotFound", arg |-> variant.vid]
        ELSE IF Len(linked) > 1
        THEN [sev |-> "ERROR", kind |-> "VidRepeated", arg |-> variant.vid,
              sources |-> [k \in 1..Len(linked) |-> linked[k].source]]
        ELSE [sev |-> "OK", kind |-> "VidMatches", arg |-> variant.vid,
              name |-> linked[1].name, source |-> linked[1].source]

\* validate_variant_vids, lines 230-259
validate_variant_vids(vs, theme_families) ==
    [k \in 1..Len(vs) |-> VariantVidLine(vs[k], theme_families)]

\* lines 271-274: the keys of sources_by_id, in insertion order
RECURSIVE IdsInOrder(_)
IdsInOrder(theme_families) ==
    IF theme_families = <<>> THEN <<>>
    ELSE LET front == IdsInOrder(SubSeq(theme_families, 1, Len(theme_families) - 1))
             last  == theme_families[Len(theme_families)].id
         IN  IF \E k \in 1..Len(front) : front[k] = last
             THEN front ELSE Append(front, last)

\* lines 271-274 with every source appended to the list of every id
SourcesOfId_EveryFamily(theme_id, theme_families) ==
    [k \in 1..Len(theme_families) |-> theme_families[k].source]

\* lines 271-274: sources_by_id[theme_id]
SourcesOfId(theme_id, theme_families) ==
    LET Has(family) == family.id = theme_id
        members     == SelectSeq(theme_families, Has)
    IN  [k \in 1..Len(members) |-> members[k].source]

\* lines 276-283 with the one id compared to nothing: the [OK] line is
\* printed whatever the ids are
validate_theme_ids_AlwaysOK(theme_families) ==
    IF theme_families = <<>> THEN <<>>
    ELSE <<[sev |-> "OK", kind |-> "SameId", arg |-> theme_families[1].id]>>

\* validate_theme_ids, lines 262-283: one [OK] line, or one [ERROR] line
\* followed by one unprefixed line per id
validate_theme_ids(theme_families) ==
    IF theme_families = <<>> THEN <<>>
    ELSE LET keys == IdsInOrder(theme_families)
         IN  IF Len(keys) = 1
             THEN <<[sev |-> "OK", kind |-> "SameId", arg |-> keys[1]]>>
             ELSE <<[sev |-> "ERROR", kind |-> "DistinctIds", arg |-> None]>>
                  \o [k \in 1..Len(keys) |->
                         [sev |-> "DETAIL", kind |-> "IdGroup", arg |-> keys[k],
                          sources |-> SourcesOfId(keys[k], theme_families)]]

\* validate_variant_manager_links, lines 188-227
validate_variant_manager_links(vm_path, root, links, disk) ==
    LET rels_path == join(join(dirname(vm_path), n_rels), basename(vm_path) \o n_dotrels)
        Line(rel) ==
            IF ~Truthy(rel.Target)
            THEN [sev |-> "ADVERTENCIA", kind |-> "NoTarget", arg |-> rel.Id]
            ELSE LET resolved == resolve_relationship_target(rels_path, rel.Target, root)
                 IN  IF exists(disk, resolved)
                     THEN [sev |-> "OK", kind |-> "LinkFound", arg |-> resolved]
                     ELSE [sev |-> "ERROR", kind |-> "LinkMissing", arg |-> resolved]
    IN  IF ~links.exists \/ ~links.wf THEN <<>>
        ELSE [k \in 1..Len(links.rels) |-> Line(links.rels[k])]

\* lines 331-332 with every theme's variant manager taken, the last one
\* staying
KeepFirst_LastWins(acc, vm) ==
    IF Truthy(vm) THEN vm ELSE acc

\* lines 331-332: the accumulator takes the variant manager of a theme only
\* while it is None
KeepFirst(acc, vm) ==
    IF acc = None /\ Truthy(vm) THEN vm ELSE acc

InitInspect ==
    /\ main_base_dir \in {Empty, SL \o n_pkg, SL \o n_pkg \o SL \o n_a_xml}
    /\ n_themes \in IF main_base_dir = SL \o n_pkg THEN 0..MaxThemes ELSE {0}
    /\ root_manager \in IF main_base_dir = SL \o n_pkg THEN RootManagers
                                                      ELSE {NoRootManager}
    /\ in_pc = "start"
    /\ in_i = 0
    /\ found = FALSE
    /\ variant_manager_path = None
    /\ theme_files = NoThemeFiles
    /\ all_theme_families = <<>>
    /\ processed = {}
    /\ variants = <<>>
    /\ out = <<>>
    /\ exit_code = "running"
    /\ IdleResolve /\ IdleRels /\ IdleCT /\ IdleWalk /\ IdleRerun /\ IdleCompare

\* lines 306-309: the dialog was cancelled
MainNoBaseDir ==
    /\ in_pc = "start" /\ ~Truthy(main_base_dir)
    /\ in_pc' = "exit" /\ exit_code' = "1"
    /\ UNCHANGED <<main_base_dir, root_manager, n_themes, in_i, found, variant_manager_path,
                   all_theme_families, processed, variants, out>>
    /\ UNCHANGED theme_files
    /\ UNCHANGED <<resolveVars, relsVars, ctVars, walkVars, rerunVars, compareVars>>

\* lines 311-313: the selected path is no directory
MainNotADirectory ==
    /\ in_pc = "start" /\ Truthy(main_base_dir)
    /\ main_base_dir # SL \o n_pkg
    /\ in_pc' = "exit" /\ exit_code' = "1"
    /\ UNCHANGED <<main_base_dir, root_manager, n_themes, in_i, found, variant_manager_path,
                   all_theme_families, processed, variants, out>>
    /\ UNCHANGED theme_files
    /\ UNCHANGED <<resolveVars, relsVars, ctVars, walkVars, rerunVars, compareVars>>

\* lines 315-318: the accumulators, then the loop over find_theme_files
MainBegin ==
    /\ in_pc = "start" /\ main_base_dir = SL \o n_pkg
    /\ in_pc' = "loop"
    /\ found' = FALSE
    /\ variant_manager_path' = None
    /\ all_theme_families' = <<>>
    /\ UNCHANGED <<main_base_dir, root_manager, n_themes, in_i, processed, variants, out, exit_code>>
    /\ UNCHANGED theme_files
    /\ UNCHANGED <<resolveVars, relsVars, ctVars, walkVars, rerunVars, compareVars>>

\* lines 318-332: the loop body for a theme1.xml that parses
ThemeBody ==
    /\ in_pc = "loop" /\ in_i < n_themes
    /\ \E taken \in ThemeFilesOf(in_i + 1), doc \in ThemeDocs :
        /\ doc.wf
        /\ theme_files' = taken
        /\ found' = TRUE
        /\ all_theme_families' = all_theme_families
               \o extract_theme_families(doc, taken.theme_path)
        /\ variant_manager_path' =
               KeepFirst(variant_manager_path, taken.variant_manager_path)
    /\ in_i' = in_i + 1
    /\ processed' = processed \cup {in_i + 1}
    /\ UNCHANGED <<main_base_dir, root_manager, n_themes, in_pc, variants, out, exit_code>>
    /\ UNCHANGED <<resolveVars, relsVars, ctVars, walkVars, rerunVars, compareVars>>

\* lines 319-320 and 80-83: get_target_elements raises SystemExit on the
\* ParseError of a theme1.xml, which ends the process with status 1
ThemeParseError ==
    /\ in_pc = "loop" /\ in_i < n_themes
    /\ \E doc \in ThemeDocs : ~doc.wf
    /\ theme_files' = NoThemeFiles
    /\ found' = TRUE
    /\ in_i' = in_i + 1
    /\ in_pc' = "exit" /\ exit_code' = "1"
    /\ UNCHANGED <<main_base_dir, root_manager, n_themes, variant_manager_path,
                   all_theme_families, processed, variants, out>>
    /\ UNCHANGED <<resolveVars, relsVars, ctVars, walkVars, rerunVars, compareVars>>

\* lines 334-335: no theme folder was found
MainNothingFound ==
    /\ in_pc = "loop" /\ in_i = n_themes /\ ~found
    /\ in_pc' = "exit" /\ exit_code' = "0"
    /\ UNCHANGED <<main_base_dir, root_manager, n_themes, in_i, found, variant_manager_path,
                   all_theme_families, processed, variants, out>>
    /\ theme_files' = NoThemeFiles
    /\ UNCHANGED <<resolveVars, relsVars, ctVars, walkVars, rerunVars, compareVars>>

\* lines 336-341: themeVariantManager.xml parses, validate_variant_vids
CheckVariantVids ==
    /\ in_pc = "loop" /\ in_i = n_themes /\ found /\ Truthy(variant_manager_path)
    /\ \E doc \in ReadVariantManager(variant_manager_path) :
        /\ doc.wf
        /\ variants' = doc.variants
        /\ out' = out \o validate_variant_vids(doc.variants, all_theme_families)
    /\ in_pc' = "links"
    /\ UNCHANGED <<main_base_dir, root_manager, n_themes, in_i, found, variant_manager_path,
                   all_theme_families, processed, exit_code>>
    /\ theme_files' = NoThemeFiles
    /\ UNCHANGED <<resolveVars, relsVars, ctVars, walkVars, rerunVars, compareVars>>

\* lines 338 and 289-292: read_xml_as_string raises SystemExit on the
\* ParseError of themeVariantManager.xml
VariantManagerParseError ==
    /\ in_pc = "loop" /\ in_i = n_themes /\ found /\ Truthy(variant_manager_path)
    /\ \E doc \in ReadVariantManager(variant_manager_path) : ~doc.wf
    /\ in_pc' = "exit" /\ exit_code' = "1"
    /\ UNCHANGED <<main_base_dir, root_manager, n_themes, in_i, found, variant_manager_path,
                   all_theme_families, processed, variants, out>>
    /\ theme_files' = NoThemeFiles
    /\ UNCHANGED <<resolveVars, relsVars, ctVars, walkVars, rerunVars, compareVars>>

\* line 342: validate_variant_manager_links
CheckVariantManagerLinks ==
    /\ in_pc = "links"
    /\ \E links \in LinkDocs :
        out' = out \o validate_variant_manager_links(variant_manager_path,
                                                     main_base_dir, links, CTDisk)
    /\ in_pc' = "ids"
    /\ UNCHANGED <<main_base_dir, root_manager, n_themes, in_i, found, variant_manager_path,
                   all_theme_families, processed, variants, exit_code>>
    /\ UNCHANGED theme_files
    /\ UNCHANGED <<resolveVars, relsVars, ctVars, walkVars, rerunVars, compareVars>>

\* lines 344-346 reached from inside the loop: validate_theme_ids runs on the
\* families accumulated so far
MainNoVariantManager_InsideLoop ==
    /\ in_pc = "loop" /\ in_i <= n_themes /\ found /\ ~Truthy(variant_manager_path)
    /\ in_pc' = "ids"
    /\ UNCHANGED <<main_base_dir, root_manager, n_themes, in_i, found, variant_manager_path,
                   all_theme_families, processed, variants, out, exit_code>>
    /\ theme_files' = NoThemeFiles
    /\ UNCHANGED <<resolveVars, relsVars, ctVars, walkVars, rerunVars, compareVars>>


\* lines 344-346: no variant manager, validate_theme_ids alone
MainNoVariantManager ==
    /\ in_pc = "loop" /\ in_i = n_themes /\ found /\ ~Truthy(variant_manager_path)
    /\ in_pc' = "ids"
    /\ UNCHANGED <<main_base_dir, root_manager, n_themes, in_i, found, variant_manager_path,
                   all_theme_families, processed, variants, out, exit_code>>
    /\ theme_files' = NoThemeFiles
    /\ UNCHANGED <<resolveVars, relsVars, ctVars, walkVars, rerunVars, compareVars>>

\* lines 343, 346, 347: validate_theme_ids, then return 0
CheckThemeIds ==
    /\ in_pc = "ids"
    /\ out' = out \o validate_theme_ids(all_theme_families)
    /\ in_pc' = "exit" /\ exit_code' = "0"
    /\ UNCHANGED <<main_base_dir, root_manager, n_themes, in_i, found, variant_manager_path,
                   all_theme_families, processed, variants>>
    /\ UNCHANGED theme_files
    /\ UNCHANGED <<resolveVars, relsVars, ctVars, walkVars, rerunVars, compareVars>>

NextInspect ==
    \/ MainNoBaseDir
    \/ MainNotADirectory
    \/ MainBegin
    \/ ThemeBody
    \/ ThemeParseError
    \/ MainNothingFound
    \/ CheckVariantVids
    \/ VariantManagerParseError
    \/ CheckVariantManagerLinks
    \/ MainNoVariantManager
    \/ CheckThemeIds

SpecInspect == InitInspect /\ [][NextInspect]_vars

---------------------------------------------------------------------------
\* SpecDiscover: find_theme_files of inspector_temas_openxml.py and of
\* extractor_temas.py, run to its end over a directory tree.  os.walk is
\* top-down: it produces a directory with the names of its sub-directories
\* and of its files, then walks the sub-directories, in the order in which
\* the file system lists them.

n_tvm_typo == <<"t", "h", "e", "m", "e", "V", "a", "r", "i", "a", "n",
                "M", "a", "n", "a", "g", "e", "r", ".", "x", "m", "l">>

THEME_FILE_NAME == n_theme1
VARIANT_MANAGER_FILE_NAMES == <<n_tvm, n_tvm_typo>>

\* the names a directory, a file below base_dir can have
WalkDirNames  == {n_theme, n_themeVariants}
WalkFileNames == {n_theme1, n_tvm, n_tvm_typo}

\* the directories find_theme_files is started on
WalkBases == {SL \o n_pkg, SL \o n_pkg \o SL \o n_theme}

\* the sets of at most n directories below base, each with its parent
RECURSIVE DirTreesUpTo(_, _)
DirTreesUpTo(base, n) ==
    IF n = 0 THEN {{}}
    ELSE LET prev == DirTreesUpTo(base, n - 1)
         IN  prev \cup UNION {{t \cup {join(p, nm)} : p \in t \cup {base},
                                                     nm \in WalkDirNames} : t \in prev}

\* the subsets of S with at most n elements
RECURSIVE SubsetsUpTo(_, _)
SubsetsUpTo(S, n) ==
    IF n = 0 \/ S = {} THEN {{}}
    ELSE LET x == CHOOSE y \in S : TRUE
         IN  SubsetsUpTo(S \ {x}, n) \cup {T \cup {x} : T \in SubsetsUpTo(S \ {x}, n - 1)}

\* the trees of at most n directories and files below base, the files with
\* a name of file_names
DisksUpTo(base, n, file_names) ==
    UNION {{[dirs |-> t, files |-> f] :
               f \in SubsetsUpTo({join(p, nm) : p \in t \cup {base}, nm \in file_names},
                                 n - Cardinality(t))} :
           t \in DirTreesUpTo(base, n)}

\* os.walk, the second element of the triple: the sub-directories of
\* current_root, as paths
WalkSubDirs(dirs, current_root) == {d \in dirs : dirname(d) = current_root}

\* os.walk, the third element of the triple: the names of the files of
\* current_root
WalkFiles(disk_fs, current_root) ==
    {basename(f) : f \in {g \in disk_fs : dirname(g) = current_root}}

\* the orders in which the file system can list the set S
Listings(S) ==
    {l \in [1..Cardinality(S) -> S] : \A j, k \in 1..Cardinality(S) : l[j] = l[k] => j = k}

\* the tests of a directory without the one of the parent's name
IsThemeFolder_AnyParent(current_root, files) ==
    /\ basename(current_root) = n_theme
    /\ THEME_FILE_NAME \in files

\* inspector lines 49-56, extractor lines 59-64: the three tests a directory
\* has to pass
IsThemeFolder(current_root, files) ==
    /\ basename(current_root) = n_theme
    /\ basename(dirname(current_root)) = n_theme
    /\ THEME_FILE_NAME \in files

\* candidate_paths with the themeVariants folder of base_dir tried first
candidate_paths_RootFirst(current_root, base_dir) ==
    [k \in 1..2 |-> join(join(base_dir, n_themeVariants), VARIANT_MANAGER_FILE_NAMES[k])]
    \o [k \in 1..2 |-> join(join(current_root, n_themeVariants), VARIANT_MANAGER_FILE_NAMES[k])]
    \o [k \in 1..2 |-> join(current_root, VARIANT_MANAGER_FILE_NAMES[k])]

\* inspector lines 59-68: candidate_paths
candidate_paths(current_root, base_dir) ==
    [k \in 1..2 |-> join(join(current_root, n_themeVariants), VARIANT_MANAGER_FILE_NAMES[k])]
    \o [k \in 1..2 |-> join(current_root, VARIANT_MANAGER_FILE_NAMES[k])]
    \o [k \in 1..2 |-> join(join(base_dir, n_themeVariants), VARIANT_MANAGER_FILE_NAMES[k])]

\* inspector line 70: next((path for path in candidates if exists), None)
FirstExisting(candidates, disk) ==
    IF \A k \in 1..Len(candidates) : ~exists(disk, candidates[k]) THEN None
    ELSE candidates[CHOOSE k \in 1..Len(candidates) :
                        /\ exists(disk, candidates[k])
                        /\ \A j \in 1..(k - 1) : ~exists(disk, candidates[j])]

\* inspector lines 58-74: the ThemeFiles yielded for a theme folder
ThemeFilesRecord(current_root, base_dir, disk) ==
    [theme_path |-> join(current_root, THEME_FILE_NAME),
     variant_manager_path |-> FirstExisting(candidate_paths(current_root, base_dir), disk)]

InitDiscover ==
    /\ walk_script \in {"inspector_temas_openxml", "extractor_temas"}
    /\ walk_base \in WalkBases
    \* the extractor never looks at a variant manager
    /\ \E d \in DisksUpTo(walk_base, MaxEntries,
                           IF walk_script = "extractor_temas"
                           THEN {THEME_FILE_NAME} ELSE WalkFileNames) :
        /\ disk_dirs = d.dirs
        /\ disk_files = d.files
    /\ walk_pc = "walk"
    /\ walk_stack = <<walk_base>>
    /\ walk_visited = <<>>
    /\ yielded = <<>>
    /\ IdleResolve /\ IdleRels /\ IdleCT /\ IdleInspect /\ IdleRerun /\ IdleCompare

\* one turn of the for loop over os.walk on a directory that fails one of
\* the three tests: continue
WalkContinue ==
    /\ walk_pc = "walk" /\ walk_stack # <<>>
    /\ LET current_root == Head(walk_stack)
       IN  /\ ~IsThemeFolder(current_root, WalkFiles(disk_files, current_root))
           /\ \E l \in Listings(WalkSubDirs(disk_dirs, current_root)) :
                  walk_stack' = l \o Tail(walk_stack)
           /\ walk_visited' = Append(walk_visited, current_root)
    /\ UNCHANGED <<walk_script, walk_base, disk_dirs, disk_files, walk_pc, yielded>>
    /\ UNCHANGED <<resolveVars, relsVars, ctVars, inVars, rerunVars, compareVars>>

\* one turn of the for loop on a theme folder: the yield (a ThemeFiles in
\* the inspector, the path of theme1.xml in the extractor)
WalkYield ==
    /\ walk_pc = "walk" /\ walk_stack # <<>>
    /\ LET current_root == Head(walk_stack)
       IN  /\ IsThemeFolder(current_root, WalkFiles(disk_files, current_root))
           /\ yielded' = Append(yielded,
                  IF walk_script = "extractor_temas"
                  THEN join(current_root, THEME_FILE_NAME)
                  ELSE ThemeFilesRecord(current_root, walk_base,
                                        disk_dirs \cup disk_files))
           /\ \E l \in Listings(WalkSubDirs(disk_dirs, current_root)) :
                  walk_stack' = l \o Tail(walk_stack)
           /\ walk_visited' = Append(walk_visited, current_root)
    /\ UNCHANGED <<walk_script, walk_base, disk_dirs, disk_files, walk_pc>>
    /\ UNCHANGED <<resolveVars, relsVars, ctVars, inVars, rerunVars, compareVars>>

\* os.walk has no directory left: the generator is exhausted
WalkExhausted ==
    /\ walk_pc = "walk" /\ walk_stack = <<>>
    /\ walk_pc' = "done"
    /\ UNCHANGED <<walk_script, walk_base, disk_dirs, disk_files, walk_stack,
                   walk_visited, yielded>>
    /\ UNCHANGED <<resolveVars, relsVars, ctVars, inVars, rerunVars, compareVars>>

NextDiscover ==
    \/ WalkContinue
    \/ WalkYield
    \/ WalkExhausted

SpecDiscover == InitDiscover /\ [][NextDiscover]_vars

---------------------------------------------------------------------------
\* SpecRerun: one validator called twice with the same arguments over the
\* same disk.  The collections a call builds are kept in rr_left after it
\* returns, so that the next call is seen to start from its own.

\* revisar_rel.py line 52 with the set of the previous call taken up again
NewIds_Leftover(left) == left

\* revisar_rel.py line 52, ids = set(): the set a call of validate_rels_file
\* starts with, whatever an earlier call left
NewIds(left) == {}

\* revisar_content_types.py lines 46 and 74, extensions_seen = set() and
\* partnames_seen = set()
NewSeen(left) == {}

\* validate_rels_file lines 54-104, the whole loop: the errors it appends and
\* the ids it ends with
RECURSIVE RelsLoop(_, _, _, _)
RelsLoop(path, rels, seen, disk) ==
    IF rels = <<>> THEN [errors |-> <<>>, ids |-> seen]
    ELSE LET rest == RelsLoop(path, Tail(rels), IdsAfter(Head(rels).Id, seen), disk)
         IN  [errors |-> RelationshipErrors(path, Head(rels), seen, disk) \o rest.errors,
              ids    |-> rest.ids]

\* validate_rels_file, lines 27-116, as one call
validate_rels_file(path, doc, left, disk) ==
    IF ParseErrors(doc) # <<>>
    THEN [errors |-> ParseErrors(doc), ids |-> left]
    ELSE LET run == RelsLoop(path, doc.rels, NewIds(left), disk)
         IN  [errors |-> FinalErrors(run.errors), ids |-> run.ids]

\* validate_content_types lines 47-71, the whole <Default> loop
RECURSIVE DefaultsLoop(_, _)
DefaultsLoop(defaults, seen) ==
    IF defaults = <<>> THEN [errors |-> <<>>, seen |-> seen]
    ELSE LET rest == DefaultsLoop(Tail(defaults), ExtensionsAfter(Head(defaults), seen))
         IN  [errors |-> DefaultErrors(Head(defaults), seen) \o rest.errors,
              seen   |-> rest.seen]

\* validate_content_types lines 75-109, the whole <Override> loop
RECURSIVE OverridesLoop(_, _, _, _)
OverridesLoop(base_dir, overrides, seen, disk) ==
    IF overrides = <<>> THEN [errors |-> <<>>, seen |-> seen]
    ELSE LET rest == OverridesLoop(base_dir, Tail(overrides),
                                   PartNamesAfter(Head(overrides), seen), disk)
         IN  [errors |-> OverrideErrors(base_dir, Head(overrides), seen, disk)
                             \o rest.errors,
              seen   |-> rest.seen]

\* validate_content_types, lines 23-121, as one call
validate_content_types(doc, base_dir, left, disk) ==
    IF CTParseErrors(doc) # <<>>
    THEN [errors |-> CTParseErrors(doc), extensions |-> left.extensions,
          partnames |-> left.partnames]
    ELSE LET ds == DefaultsLoop(doc.defaults, NewSeen(left.extensions))
             os == OverridesLoop(base_dir, doc.overrides, NewSeen(left.partnames), disk)
         IN  [errors     |-> CTFinalErrors(ds.errors \o os.errors),
              extensions |-> ds.seen,
              partnames  |-> os.seen]

\* revisar_rel.py line 45: the namespace findall asks for, and another one
NS_REL   == "{http://schemas.openxmlformats.org/package/2006/relationships}"
NS_OTHER == "{urn:example:relationships}"

\* the elements of local name Relationship as the file has them, each under
\* its namespace
XmlRelElems ==
    [ns     : {NS_REL, NS_OTHER},
     Id     : {None, Empty, v_rId1, v_rId2},
     Type   : {None, v_type},
     Target : {None, n_a_xml, DotDot \o SL \o n_missing}]

XmlRelsDocs ==
    {[wf |-> TRUE, elems |-> r] : r \in SeqsUpTo(XmlRelElems, MaxRels)}
    \cup {[wf |-> FALSE, elems |-> r] : r \in SeqsUpTo(XmlRelElems, 1)}

\* the attributes rel.get reads from the elements of a list
Attributes(elems) ==
    [k \in 1..Len(elems) |->
        [Id |-> elems[k].Id, Type |-> elems[k].Type, Target |-> elems[k].Target]]

\* revisar_rel.py line 48: root.findall(f".//{NS_REL}Relationship")
findall_Relationship(doc) ==
    LET Asked(e) == e.ns = NS_REL
    IN  Attributes(SelectSeq(doc.elems, Asked))

\* the lists main can accumulate from at most MaxThemes theme1.xml parts
\* with one <themeFamily> each
FamilyLists ==
    UNION {{[k \in 1..n |-> [name |-> v_name, id |-> f[k].id, vid |-> f[k].vid,
                             source |-> ThemeDir(k) \o SL \o n_theme1]] :
               f \in [1..n -> [id : {v_idA, v_idB}, vid : {None, v_vid9}]]} :
           n \in 0..MaxThemes}

InitRerun ==
    /\ rr_validator \in {"validate_rels_file", "validate_content_types",
                         "validate_variant_vids", "validate_theme_ids"}
    /\ rr_input \in
         CASE rr_validator = "validate_rels_file" ->
                  [path : {p_rels_A}, doc : XmlRelsDocs, disk : {RelsDisk}]
           [] rr_validator = "validate_content_types" ->
                  [doc : CTDocs, base_dir : {SL \o n_pkg}, disk : {CTDisk}]
           [] rr_validator = "validate_variant_vids" ->
                  [variants : SeqsUpTo(VariantElems, MaxVariants),
                   theme_families : FamilyLists]
           [] OTHER ->
                  [theme_families : FamilyLists]
    /\ rr_left = CASE rr_validator = "validate_rels_file" -> {}
                   [] rr_validator = "validate_content_types" ->
                          [extensions |-> {}, partnames |-> {}]
                   [] OTHER -> <<>>
    /\ rr_runs = <<>>
    /\ IdleResolve /\ IdleRels /\ IdleCT /\ IdleInspect /\ IdleWalk /\ IdleCompare

\* one call of validate_rels_file(path)
RerunRels ==
    /\ rr_validator = "validate_rels_file" /\ Len(rr_runs) < 2
    /\ LET doc  == [wf |-> rr_input.doc.wf, rels |-> findall_Relationship(rr_input.doc)]
           call == validate_rels_file(rr_input.path, doc, rr_left, rr_input.disk)
       IN  /\ rr_runs' = Append(rr_runs, call.errors)
           /\ rr_left' = call.ids
    /\ UNCHANGED <<rr_validator, rr_input>>
    /\ UNCHANGED <<resolveVars, relsVars, ctVars, inVars, walkVars, compareVars>>

\* one call of validate_content_types(path, base_dir)
RerunContentTypes ==
    /\ rr_validator = "validate_content_types" /\ Len(rr_runs) < 2
    /\ LET call == validate_content_types(rr_input.doc, rr_input.base_dir, rr_left,
                                          rr_input.disk)
       IN  /\ rr_runs' = Append(rr_runs, call.errors)
           /\ rr_left' = [extensions |-> call.extensions, partnames |-> call.partnames]
    /\ UNCHANGED <<rr_validator, rr_input>>
    /\ UNCHANGED <<resolveVars, relsVars, ctVars, inVars, walkVars, compareVars>>

\* one call of validate_variant_vids(variants, theme_families): family_by_vid
\* is built inside the call (line 239)
RerunVariantVids ==
    /\ rr_validator = "validate_variant_vids" /\ Len(rr_runs) < 2
    /\ rr_runs' = Append(rr_runs, validate_variant_vids(rr_input.variants,
                                                        rr_input.theme_families))
    /\ UNCHANGED <<rr_validator, rr_input, rr_left>>
    /\ UNCHANGED <<resolveVars, relsVars, ctVars, inVars, walkVars, compareVars>>

\* one call of validate_theme_ids(theme_families): sources_by_id is built
\* inside the call (line 271)
RerunThemeIds ==
    /\ rr_validator = "validate_theme_ids" /\ Len(rr_runs) < 2
    /\ rr_runs' = Append(rr_runs, validate_theme_ids(rr_input.theme_families))
    /\ UNCHANGED <<rr_validator, rr_input, rr_left>>
    /\ UNCHANGED <<resolveVars, relsVars, ctVars, inVars, walkVars, compareVars>>

NextRerun ==
    \/ RerunRels
    \/ RerunContentTypes
    \/ RerunVariantVids
    \/ RerunThemeIds

SpecRerun == InitRerun /\ [][NextRerun]_vars

---------------------------------------------------------------------------
\* SpecCompare: the window of comparador.py (FolderComparator).  The user
\* selects the two folders, types in the right entry, presses "Comparar
\* ahora", toggles "Mostrar solo diferencias"; meanwhile a file of the left
\* folder comes and goes on disk.  A node of a Treeview is named by the relative path of
\* its entry, the root node by "", so that path_store is the identity on the
\* nodes; the titles, the previews and the debug log are left out.

p_L     == <<"/", "L">>
p_R     == <<"/", "R">>
p_nodir == <<"/", "x">>
n_z     == <<"z">>
size1   == <<"1">>
size2   == <<"2">>

LevelNames == <<"a", "b", "c", "d", "e", "f", "g", "h">>

\* the info of an entry: a directory has no size; the size of a file is None
\* when os.path.getsize raised OSError (lines 357-361)
DirInfo   == [type |-> "dir", size |-> None]
FileInfos == {[type |-> "file", size |-> s] : s \in {size1, size2, None}}
\* dict.get of a path that is no key
NoInfo    == [type |-> "none", size |-> None]

\* base/a/b/... down to level k
RECURSIVE ChainPath(_, _)
ChainPath(base, k) ==
    IF k = 0 THEN base ELSE ChainPath(base, k - 1) \o SL \o <<LevelNames[k]>>

\* the folders on disk: a chain of at most MaxDepth nested entries, the last
\* one a directory or a file, and possibly the file z at the top
DiskTrees(base) ==
    {[p \in {ChainPath(base, k) : k \in 0..d}
              \cup (IF z THEN {base \o SL \o n_z} ELSE {}) |->
         IF p = base \o SL \o n_z THEN [type |-> "file", size |-> size1]
         ELSE IF d > 0 /\ p = ChainPath(base, d) THEN last
         ELSE DirInfo] :
       d \in 0..MaxDepth, last \in {DirInfo} \cup FileInfos, z \in BOOLEAN}

\* os.path.isdir
isdir(p) == p \in {p_L, p_R}

\* os.path.relpath(current, base_path) for a directory at or below base_path
relpath(current, base_path) ==
    IF current = base_path THEN <<".">>
    ELSE SubSeq(current, Len(base_path) + 2, Len(current))

\* _scan_directory, lines 345-362: os.walk produces every directory with its
\* sub-directories and files; each becomes the key join(rel_dir, name)
_scan_directory(disk, base_path) ==
    LET rel_dir(current) ==
            IF relpath(current, base_path) = <<".">> THEN Empty
            ELSE relpath(current, base_path)
        rel_path(entry) == join(rel_dir(dirname(entry)), basename(entry))
        below == DOMAIN disk \ {base_path}
    IN  [r \in {Empty} \cup {rel_path(entry) : entry \in below} |->
            IF r = Empty THEN DirInfo
            ELSE disk[CHOOSE entry \in below : rel_path(entry) = r]]

\* dict.get(path)
Get(entries, p) == IF p \in DOMAIN entries THEN entries[p] ELSE NoInfo

\* _determine_status, lines 472-502
_determine_status(left_info, right_info) ==
    IF left_info # NoInfo /\ right_info # NoInfo
    THEN IF left_info.type # right_info.type
         THEN [status_left |-> "Tipo distinto", status_right |-> "Tipo distinto",
               differs |-> TRUE]
         ELSE IF left_info.type = "file" /\ left_info.size # None
                 /\ right_info.size # None /\ left_info.size # right_info.size
         THEN [status_left |-> "Tamaño diferente", status_right |-> "Tamaño diferente",
               differs |-> TRUE]
         ELSE [status_left |-> "Coincide", status_right |-> "Coincide",
               differs |-> FALSE]
    ELSE IF left_info # NoInfo
    THEN [status_left |-> "Solo izquierda", status_right |-> "No existe", differs |-> TRUE]
    ELSE IF right_info # NoInfo
    THEN [status_left |-> "No existe", status_right |-> "Solo derecha", differs |-> TRUE]
    ELSE [status_left |-> "", status_right |-> "", differs |-> FALSE]

\* _parent_path answering None for every path: no parent is ever added
_parent_path_NoParent(p) == None

\* _parent_path, lines 504-511
_parent_path(p) ==
    IF p = Empty THEN None
    ELSE IF dirname(p) # p THEN dirname(p) ELSE None

\* lines 459-462: the parents the while loop adds for one path
RECURSIVE ParentsAdded(_)
ParentsAdded(p) ==
    LET parent == _parent_path(p)
    IN  IF parent = None THEN {} ELSE {parent} \cup ParentsAdded(parent)

\* _build_comparison, lines 433-470
_build_comparison(left_entries, right_entries) ==
    LET all_paths  == DOMAIN left_entries \cup DOMAIN right_entries
        comparison == [p \in all_paths |->
                          _determine_status(Get(left_entries, p), Get(right_entries, p))]
        differing  == {p \in all_paths : comparison[p].differs}
    IN  [comparison      |-> comparison,
         differing_paths |-> differing \cup UNION {ParentsAdded(p) : p \in differing}]

\* _is_path_relevant, lines 320-325
_is_path_relevant(p, data, differing) ==
    (p \in DOMAIN data /\ data[p].differs) \/ p \in differing

\* _filter_entries_for_display, lines 289-318
_filter_entries_for_display(entries, only_differences, data, differing) ==
    IF ~only_differences THEN entries
    ELSE [p \in {q \in DOMAIN entries : q = Empty \/ _is_path_relevant(q, data, differing)}
             |-> entries[p]]

\* p.count(os.sep), the first component of the sort key of line 388
CountSep(p) == Cardinality({k \in 1..Len(p) : p[k] = "/"})

\* _populate_tree, lines 373-417: the root node, then the loop over the
\* paths sorted by depth; PopulateUpTo gives the nodes inserted once the
\* paths with at most depth separators are done, each with the node it was
\* inserted under: parent_ids.get(parent_path, root_id)
RECURSIVE PopulateUpTo(_, _, _, _, _)
PopulateUpTo(entries, only_differences, data, differing, depth) ==
    IF depth < 0 THEN [p \in {Empty} |-> None]
    ELSE LET before == PopulateUpTo(entries, only_differences, data, differing, depth - 1)
             layer  == {p \in DOMAIN entries \ {Empty} :
                           /\ CountSep(p) = depth
                           /\ ~(only_differences
                                  /\ ~_is_path_relevant(p, data, differing))}
         IN  [p \in DOMAIN before \cup layer |->
                 IF p \in DOMAIN before THEN before[p]
                 ELSE IF dirname(p) \in DOMAIN before THEN dirname(p)
                 ELSE Empty]

_populate_tree(entries, only_differences, data, differing) ==
    LET deepest == IF DOMAIN entries \ {Empty} = {} THEN -1
                   ELSE CHOOSE n \in 0..(MaxDepth + 1) :
                            /\ \E p \in DOMAIN entries \ {Empty} : CountSep(p) = n
                            /\ \A p \in DOMAIN entries \ {Empty} : CountSep(p) <= n
    IN  PopulateUpTo(entries, only_differences, data, differing, deepest)

\* _refresh_trees, lines 265-287, for one side
_refresh_trees(entries, only_differences, data, differing) ==
    _populate_tree(_filter_entries_for_display(entries, only_differences, data, differing),
                   only_differences, data, differing)

DiskAt(p) == IF p = p_L THEN left_disk ELSE right_disk

\* update_comparison, lines 205-249, with the entries and the filter as they
\* are when it is called
update_comparison(left_dir, right_dir, only_differences) ==
    IF ~Truthy(left_dir) \/ ~Truthy(right_dir) \/ ~isdir(left_dir) \/ ~isdir(right_dir)
    THEN UNCHANGED <<left_base_path, right_base_path, last_left_entries,
                     last_right_entries, comparison_data, difference_paths,
                     left_tree, right_tree>>
    ELSE LET left_entries  == _scan_directory(DiskAt(left_dir), left_dir)
             right_entries == _scan_directory(DiskAt(right_dir), right_dir)
             built         == _build_comparison(left_entries, right_entries)
         IN  /\ left_base_path' = left_dir
             /\ right_base_path' = right_dir
             /\ last_left_entries' = left_entries
             /\ last_right_entries' = right_entries
             /\ comparison_data' = built.comparison
             /\ difference_paths' = built.differing_paths
             /\ left_tree' = _refresh_trees(left_entries, only_differences,
                                            built.comparison, built.differing_paths)
             /\ right_tree' = _refresh_trees(right_entries, only_differences,
                                             built.comparison, built.differing_paths)

InitCompare ==
    /\ left_path = Empty /\ right_path = Empty
    /\ left_disk \in DiskTrees(p_L)
    /\ right_disk \in DiskTrees(p_R)
    /\ left_base_path = None /\ right_base_path = None
    /\ last_left_entries = NoEntries /\ last_right_entries = NoEntries
    /\ comparison_data = <<>> /\ difference_paths = {}
    /\ show_differences_only = FALSE
    /\ left_tree = <<>> /\ right_tree = <<>>
    /\ cmp_pc = "ready"
    /\ IdleResolve /\ IdleRels /\ IdleCT /\ IdleInspect /\ IdleWalk /\ IdleRerun

\* _select_directory("left"), lines 193-203
SelectLeft ==
    /\ cmp_pc = "ready"
    /\ \E selected \in {Empty, p_L} :
        IF ~Truthy(selected)
        THEN UNCHANGED <<left_path, left_base_path, right_base_path, last_left_entries,
                         last_right_entries, comparison_data, difference_paths,
                         left_tree, right_tree>>
        ELSE /\ left_path' = selected
             /\ update_comparison(selected, right_path, show_differences_only)
    /\ UNCHANGED <<right_path, left_disk, right_disk, show_differences_only, cmp_pc>>
    /\ UNCHANGED <<resolveVars, relsVars, ctVars, inVars, walkVars, rerunVars>>

\* _select_directory("right"), lines 193-203
SelectRight ==
    /\ cmp_pc = "ready"
    /\ \E selected \in {Empty, p_R} :
        IF ~Truthy(selected)
        THEN UNCHANGED <<right_path, left_base_path, right_base_path, last_left_entries,
                         last_right_entries, comparison_data, difference_paths,
                         left_tree, right_tree>>
        ELSE /\ right_path' = selected
             /\ update_comparison(left_path, selected, show_differences_only)
    /\ UNCHANGED <<left_path, left_disk, right_disk, show_differences_only, cmp_pc>>
    /\ UNCHANGED <<resolveVars, relsVars, ctVars, inVars, walkVars, rerunVars>>

\* lines 66-67: the right entry is bound to right_path; the user types in it
TypeRightPath ==
    /\ cmp_pc = "ready"
    /\ \E typed \in {Empty, p_nodir} : right_path' = typed
    /\ UNCHANGED <<left_path, left_disk, right_disk, left_base_path, right_base_path,
                   last_left_entries, last_right_entries, comparison_data,
                   difference_paths, show_differences_only, left_tree, right_tree,
                   cmp_pc>>
    /\ UNCHANGED <<resolveVars, relsVars, ctVars, inVars, walkVars, rerunVars>>

\* line 126: the button "Comparar ahora"
CompareNow ==
    /\ cmp_pc = "ready"
    /\ update_comparison(left_path, right_path, show_differences_only)
    /\ UNCHANGED <<left_path, right_path, left_disk, right_disk,
                   show_differences_only, cmp_pc>>
    /\ UNCHANGED <<resolveVars, relsVars, ctVars, inVars, walkVars, rerunVars>>

\* _on_filter_change rescanning on every toggle
_on_filter_change_AlwaysRescans ==
    /\ cmp_pc = "ready"
    /\ show_differences_only' = ~show_differences_only
    /\ update_comparison(left_path, right_path, ~show_differences_only)
    /\ UNCHANGED <<left_path, right_path, left_disk, right_disk, cmp_pc>>
    /\ UNCHANGED <<resolveVars, relsVars, ctVars, inVars, walkVars, rerunVars>>

\* lines 130-135 and _on_filter_change, lines 251-263: the Checkbutton sets
\* show_differences_only to the other value, then calls the handler
_on_filter_change ==
    /\ cmp_pc = "ready"
    /\ show_differences_only' = ~show_differences_only
    /\ IF last_left_entries = NoEntries \/ last_right_entries = NoEntries
       THEN update_comparison(left_path, right_path, ~show_differences_only)
       ELSE /\ left_tree' = _refresh_trees(last_left_entries, ~show_differences_only,
                                           comparison_data, difference_paths)
            /\ right_tree' = _refresh_trees(last_right_entries, ~show_differences_only,
                                            comparison_data, difference_paths)
            /\ UNCHANGED <<left_base_path, right_base_path, last_left_entries,
                           last_right_entries, comparison_data, difference_paths>>
    /\ UNCHANGED <<left_path, right_path, left_disk, right_disk, cmp_pc>>
    /\ UNCHANGED <<resolveVars, relsVars, ctVars, inVars, walkVars, rerunVars>>

\* the environment: the content of the left folder changes on disk, the
\* file z at its top is created or deleted
LeftFolderChanges ==
    /\ cmp_pc = "ready"
    /\ LET z_path == p_L \o SL \o n_z
           now    == DOMAIN left_disk
       IN  left_disk' =
               IF z_path \in now
               THEN [p \in now \ {z_path} |-> left_disk[p]]
               ELSE [p \in now \cup {z_path} |->
                        IF p = z_path THEN [type |-> "file", size |-> size1]
                        ELSE left_disk[p]]
    /\ UNCHANGED <<left_path, right_path, right_disk, left_base_path, right_base_path,
                   last_left_entries, last_right_entries, comparison_data,
                   difference_paths, show_differences_only, left_tree, right_tree,
                   cmp_pc>>
    /\ UNCHANGED <<resolveVars, relsVars, ctVars, inVars, walkVars, rerunVars>>

NextCompare ==
    \/ SelectLeft
    \/ SelectRight
    \/ TypeRightPath
    \/ CompareNow
    \/ _on_filter_change
    \/ LeftFolderChanges

SpecCompare == InitCompare /\ [][NextCompare]_vars

---------------------------------------------------------------------------
\* What the claims say of a part, written from the elements of the document.

RelsRunning == pc \in {"loop", "returned"}
CTRunning   == ct_pc \in {"defaults", "overrides", "returned"}

\* the Relationship elements / Default / Override elements checked so far
RelsDone      == 1..idx
DefaultsDone  == IF ct_pc = "defaults" THEN 1..ct_idx ELSE 1..Len(ct_doc.defaults)
OverridesDone == IF ct_pc = "defaults" THEN {} ELSE 1..ct_idx

\* element k has no Id, or the Id of an earlier element
IdBad(k) ==
    \/ ~Truthy(rels_doc.rels[k].Id)
    \/ \E j \in 1..(k - 1) : rels_doc.rels[j].Id = rels_doc.rels[k].Id
TypeBad(k)   == ~Truthy(rels_doc.rels[k].Type)
TargetBad(k) == ~Truthy(rels_doc.rels[k].Target)
TargetPath(k) == resolve_target_path(paths[cur], rels_doc.rels[k].Target)
TargetLost(k) == Truthy(rels_doc.rels[k].Target) /\ TargetPath(k) \notin fs

ExtensionBad(k) ==
    \/ ~Truthy(ct_doc.defaults[k].Extension)
    \/ \E j \in 1..(k - 1) : ct_doc.defaults[j].Extension = ct_doc.defaults[k].Extension
PartNameMissing(k) == ~Truthy(ct_doc.overrides[k].PartName)
PartNameRepeated(k) ==
    /\ Truthy(ct_doc.overrides[k].PartName)
    /\ \E j \in 1..(k - 1) : ct_doc.overrides[j].PartName = ct_doc.overrides[k].PartName
PartLost(k) ==
    /\ Truthy(ct_doc.overrides[k].PartName)
    /\ normpath(ct_base \o SL \o LStrip(ct_doc.overrides[k].PartName, {"/", "\\"}))
           \notin ct_fs

Count(S) == Cardinality(S)

IdKinds == {"NoId", "DupId"}

\* C6: a part that is not well formed yields exactly one diagnostic, the
\* ERROR of the parse failure, and none of its elements is checked.
C6_ParseErrorOnly ==
    /\ (RelsRunning /\ ~rels_doc.wf) =>
           /\ pc = "returned"
           /\ returned = <<ERR("XML", None)>>
           /\ idx = 0 /\ ids = {}
    /\ (CTRunning /\ ~ct_doc.wf) =>
           /\ ct_pc = "returned"
           /\ ct_returned = <<ERR("XML", None)>>
           /\ ct_idx = 0 /\ extensions_seen = {} /\ partnames_seen = {}

\* a .rels file that is not well formed, although its text holds a
\* Relationship without Id, has been handed to validate_rels_file
C6_Witness ==
    /\ pc = "returned"
    /\ ~rels_doc.wf
    /\ Len(rels_doc.rels) = 1 /\ rels_doc.rels[1].Id = None
    /\ Len(returned) = 1 /\ returned[1].sev = "ERROR"

\* C7: in one .rels part, the Id ERRORs are, in document order, one for each
\* element whose Id is absent, empty or the Id of an earlier element, and
\* none for any other element; the returned list has no Id ERROR exactly
\* when every Id is non-empty and unique.
C7_IdErrors ==
    (RelsRunning /\ rels_doc.wf) =>
        LET IsIdErr(d) == d.kind \in IdKinds
            got        == SelectSeq(errors, IsIdErr)
            bad        == {k \in RelsDone : IdBad(k)}
            nth(n)     == CHOOSE k \in bad : Count({j \in bad : j <= k}) = n
        IN  /\ Len(got) = Count(bad)
            /\ \A n \in 1..Len(got) :
                   /\ got[n].sev = "ERROR"
                   /\ got[n].kind = IF Truthy(rels_doc.rels[nth(n)].Id)
                                    THEN "DupId" ELSE "NoId"
                   /\ got[n].kind = "DupId" => got[n].arg = rels_doc.rels[nth(n)].Id
            /\ pc = "returned" =>
                   ((\A n \in 1..Len(returned) : ~IsIdErr(returned[n]))
                    <=> /\ \A k \in 1..Len(rels_doc.rels) : Truthy(rels_doc.rels[k].Id)
                        /\ \A j, k \in 1..Len(rels_doc.rels) :
                               j # k => rels_doc.rels[j].Id # rels_doc.rels[k].Id)

\* a part with two Relationship elements of the same Id "rId1": the second
\* one, and only it, is reported
C7_Witness ==
    /\ pc = "returned" /\ rels_doc.wf
    /\ Len(rels_doc.rels) = 2
    /\ rels_doc.rels[1].Id = v_rId1 /\ rels_doc.rels[2].Id = v_rId1
    /\ rels_doc.rels[1].Type = v_type /\ rels_doc.rels[2].Type = v_type
    /\ rels_doc.rels[1].Target = n_a_xml /\ rels_doc.rels[2].Target = n_a_xml
    /\ returned = <<ERR("DupId", v_rId1)>>

\* C8: no failed check hides another: the errors list holds one ERROR for
\* every failed attribute, uniqueness and existence check of every element
\* checked so far (uniqueness is checked of a present key, existence of a
\* present Target or PartName), and a validator that returns from a well
\* formed part has checked every element.
C8_NoCheckSuppressed ==
    /\ (RelsRunning /\ rels_doc.wf) =>
           /\ Count({n \in 1..Len(errors) : errors[n].sev = "ERROR"})
                  = Count({k \in RelsDone : IdBad(k)})
                    + Count({k \in RelsDone : TypeBad(k)})
                    + Count({k \in RelsDone : TargetBad(k)})
                    + Count({k \in RelsDone : TargetLost(k)})
           /\ pc = "returned" => idx = Len(rels_doc.rels)
    /\ (CTRunning /\ ct_doc.wf) =>
           /\ Count({n \in 1..Len(ct_errors) : ct_errors[n].sev = "ERROR"})
                  = Count({k \in DefaultsDone : ExtensionBad(k)})
                    + Count({k \in DefaultsDone : ~Truthy(ct_doc.defaults[k].ContentType)})
                    + Count({k \in OverridesDone : PartNameMissing(k)})
                    + Count({k \in OverridesDone : PartNameRepeated(k)})
                    + Count({k \in OverridesDone : PartLost(k)})
                    + Count({k \in OverridesDone : ~Truthy(ct_doc.overrides[k].ContentType)})
           /\ ct_pc = "returned" => ct_idx = Len(ct_doc.overrides)

\* a Relationship without Id, Type and Target gets three ERRORs, and the
\* Relationship after it, with a Target that does not exist, is still
\* checked
C8_Witness ==
    /\ pc = "returned" /\ rels_doc.wf
    /\ Len(rels_doc.rels) = 2
    /\ rels_doc.rels[1] = [Id |-> None, Type |-> None, Target |-> None]
    /\ rels_doc.rels[2] = [Id |-> v_rId1, Type |-> v_type,
                           Target |-> DotDot \o SL \o n_missing]
    /\ Len(returned) = 4
    /\ returned[4].kind = "NotFound"

\* C9: the existence ERRORs of a .rels part are, in document order, one for
\* each Relationship whose non-empty Target resolves (resolve_target_path)
\* to a path that is not on disk, each carrying that resolved path; a part
\* with the single relationship Target="../missing.xml" (Id and Type valid)
\* returns exactly that one ERROR.
C9_MissingTargetReported ==
    (RelsRunning /\ rels_doc.wf) =>
        LET IsLost(d) == d.kind = "NotFound"
            got       == SelectSeq(errors, IsLost)
            lost      == {k \in RelsDone : TargetLost(k)}
            nth(n)    == CHOOSE k \in lost : Count({j \in lost : j <= k}) = n
        IN  /\ Len(got) = Count(lost)
            /\ \A n \in 1..Len(got) : got[n] = ERR("NotFound", TargetPath(nth(n)))
            /\ (/\ pc = "returned"
                /\ paths[cur] = p_rels_A
                /\ rels_doc.rels = <<[Id |-> v_rId1, Type |-> v_type,
                                      Target |-> DotDot \o SL \o n_missing]>>)
               => returned = <<ERR("NotFound", SL \o n_pkg \o SL \o n_missing)>>

\* "/pkg/theme/_rels/a.rels" with the single relationship
\* Target="../missing.xml" has been validated
C9_Witness ==
    /\ pc = "returned" /\ rels_doc.wf
    /\ paths[cur] = p_rels_A
    /\ rels_doc.rels = <<[Id |-> v_rId1, Type |-> v_type,
                          Target |-> DotDot \o SL \o n_missing]>>
    /\ Len(returned) = 1 /\ returned[1].sev = "ERROR"

\* no check of the .rels part failed
RelsClean ==
    /\ rels_doc.wf
    /\ \A k \in 1..Len(rels_doc.rels) :
           ~IdBad(k) /\ ~TypeBad(k) /\ ~TargetBad(k) /\ ~TargetLost(k)

\* no check of the [Content_Types].xml failed
CTClean ==
    /\ ct_doc.wf
    /\ \A k \in 1..Len(ct_doc.defaults) :
           ~ExtensionBad(k) /\ Truthy(ct_doc.defaults[k].ContentType)
    /\ \A k \in 1..Len(ct_doc.overrides) :
           /\ ~PartNameMissing(k) /\ ~PartNameRepeated(k) /\ ~PartLost(k)
           /\ Truthy(ct_doc.overrides[k].ContentType)

OneOKOrErrors(result, clean) ==
    /\ result # <<>>
    /\ clean => result = <<OKMSG>>
    /\ ~clean => \A n \in 1..Len(result) : result[n].sev = "ERROR"

\* C10: the list a validator returns is never empty and never mixes
\* severities: the single OK when no check failed, only ERRORs otherwise.
C10_OneOKOrOnlyErrors ==
    /\ pc = "returned" => OneOKOrErrors(returned, RelsClean)
    /\ ct_pc = "returned" => OneOKOrErrors(ct_returned, CTClean)

\* a .rels part with two relationships, unique ids, existing targets
C10_Witness ==
    /\ pc = "returned" /\ rels_doc.wf
    /\ Len(rels_doc.rels) = 2
    /\ rels_doc.rels[1] = [Id |-> v_rId1, Type |-> v_type, Target |-> n_a_xml]
    /\ rels_doc.rels[2] = [Id |-> v_rId2, Type |-> v_type, Target |-> n_a_xml]
    /\ returned = <<OKMSG>>

\* C5: a theme1.xml that is not well formed never keeps the other parts
\* from being processed: when main ends, every theme1.xml that
\* find_theme_files yields has been taken, and if one of them parsed, the
\* id-agreement check over the themes that parsed has run (it prints a line
\* as soon as there is a themeFamily).  Stated as the claim has it; the
\* SystemExit raised on a ParseError breaks it.
C5_ParseErrorSparesSiblings ==
    (in_pc = "exit" /\ main_base_dir = SL \o n_pkg) =>
        /\ in_i = n_themes
        /\ (processed # {} /\ all_theme_families # <<>>) =>
               \E n \in 1..Len(out) : out[n].kind \in {"SameId", "DistinctIds"}

\* C11: a well formed .rels part without any Relationship element is no
\* error: validate_rels_file checks nothing and returns a list without an
\* ERROR, the single OK.
C11_EmptyPartIsNoError ==
    (RelsRunning /\ rels_doc.wf /\ rels_doc.rels = <<>>) =>
        /\ errors = <<>> \/ errors = <<OKMSG>>
        /\ pc = "returned" =>
               /\ \A n \in 1..Len(returned) : returned[n].sev # "ERROR"
               /\ returned = <<OKMSG>>

\* "/pkg/_rels/a.rels", well formed and without Relationship elements, has
\* been validated
C11_Witness ==
    /\ pc = "returned"
    /\ paths[cur] = p_rels_B
    /\ rels_doc.wf /\ rels_doc.rels = <<>>
    /\ idx = 0
    /\ Len(returned) = 1 /\ returned[1].sev = "OK"

\* C12: the duplicate ERRORs of a [Content_Types].xml are, in document
\* order, one for each Override whose PartName is that of an earlier
\* Override, each naming that PartName, and none for a first occurrence; two
\* Overrides with the same PartName give exactly one such ERROR.
C12_OneDuplicateErrorPerRepeat ==
    (CTRunning /\ ct_doc.wf) =>
        LET IsDup(d) == d.kind = "DupPartName"
            got      == SelectSeq(ct_errors, IsDup)
            rep      == {k \in OverridesDone : PartNameRepeated(k)}
            nth(n)   == CHOOSE k \in rep : Count({j \in rep : j <= k}) = n
        IN  /\ Len(got) = Count(rep)
            /\ \A n \in 1..Len(got) :
                   got[n] = ERR("DupPartName", ct_doc.overrides[nth(n)].PartName)
            /\ (/\ ct_pc = "returned"
                /\ Len(ct_doc.overrides) = 2
                /\ Truthy(ct_doc.overrides[1].PartName)
                /\ ct_doc.overrides[1].PartName = ct_doc.overrides[2].PartName)
               => /\ Len(SelectSeq(ct_returned, IsDup)) = 1
                  /\ SelectSeq(ct_returned, IsDup)[1].arg = ct_doc.overrides[1].PartName

\* revisar_content_types has validated two Overrides of "/a.xml", a part
\* that exists: the only entry returned is the duplicate ERROR
C12_Witness ==
    /\ ct_pc = "returned" /\ ct_doc.wf
    /\ ct_script = "revisar_content_types"
    /\ ct_doc.defaults = <<>>
    /\ ct_doc.overrides = <<[PartName |-> SL \o n_a_xml, ContentType |-> v_ctype],
                            [PartName |-> SL \o n_a_xml, ContentType |-> v_ctype]>>
    /\ ct_returned = <<ERR("DupPartName", SL \o n_a_xml)>>

\* C13: the Extension of a Default is compared character for character:
\* the duplicate ERRORs are, in document order, one for each Default whose
\* Extension is equal to that of an earlier Default, and two Defaults whose
\* Extensions differ only in letter case ("xml", "XML") give none.
C13_ExtensionCaseSensitive ==
    (CTRunning /\ ct_doc.wf) =>
        LET IsDup(d) == d.kind = "DupExtension"
            got      == SelectSeq(ct_errors, IsDup)
            rep      == {k \in DefaultsDone :
                            /\ Truthy(ct_doc.defaults[k].Extension)
                            /\ \E j \in 1..(k - 1) :
                                   ct_doc.defaults[j].Extension
                                       = ct_doc.defaults[k].Extension}
            nth(n)   == CHOOSE k \in rep : Count({j \in rep : j <= k}) = n
        IN  /\ Len(got) = Count(rep)
            /\ \A n \in 1..Len(got) :
                   got[n] = ERR("DupExtension", ct_doc.defaults[nth(n)].Extension)
            /\ (/\ Len(ct_doc.defaults) = 2
                /\ ct_doc.defaults[1].Extension = v_xml
                /\ ct_doc.defaults[2].Extension = v_XML)
               => got = <<>>

\* Defaults for "xml", "XML" and "xml" again have been validated: the third
\* one alone is a duplicate
C13_Witness ==
    /\ ct_pc = "returned" /\ ct_doc.wf
    /\ ct_script = "revisar_content_types"
    /\ ct_doc.defaults = <<[Extension |-> v_xml, ContentType |-> v_ctype],
                           [Extension |-> v_XML, ContentType |-> v_ctype],
                           [Extension |-> v_xml, ContentType |-> v_ctype]>>
    /\ ct_returned = <<ERR("DupExtension", v_xml)>>

\* C14: of the Overrides checked so far, each one without PartName has its
\* missing-attribute ERROR and no existence ERROR; each one with a PartName
\* has an existence ERROR exactly when the PartName, stripped of its leading
\* separators, joined to the package root and normalized, is not on disk,
\* and the ERROR carries that path; the ERRORs come in document order.
C14_OverrideExistence ==
    (CTRunning /\ ct_doc.wf) =>
        LET IsLost(d)   == d.kind = "NotFound"
            IsNoName(d) == d.kind = "NoPartName"
            got         == SelectSeq(ct_errors, IsLost)
            lost        == {k \in OverridesDone : PartLost(k)}
            nth(n)      == CHOOSE k \in lost : Count({j \in lost : j <= k}) = n
            Resolved(k) == normpath(ct_base \o SL
                               \o LStrip(ct_doc.overrides[k].PartName, {"/", "\\"}))
        IN  /\ Len(got) = Count(lost)
            /\ \A n \in 1..Len(got) : got[n] = ERR("NotFound", Resolved(nth(n)))
            /\ \A k \in lost : ~PartNameMissing(k)
            /\ Len(SelectSeq(ct_errors, IsNoName))
                   = Count({k \in OverridesDone : PartNameMissing(k)})

\* Overrides without PartName, of "/missing.xml" and of "/a.xml" have been
\* validated under "/pkg", where only "/pkg/a.xml" exists
C14_Witness ==
    /\ ct_pc = "returned" /\ ct_doc.wf
    /\ ct_base = SL \o n_pkg
    /\ ct_doc.defaults = <<>>
    /\ ct_doc.overrides = <<[PartName |-> None, ContentType |-> v_ctype],
                            [PartName |-> SL \o n_missing, ContentType |-> v_ctype],
                            [PartName |-> SL \o n_a_xml, ContentType |-> v_ctype]>>
    /\ ct_returned = <<ERR("NoPartName", None),
                       ERR("NotFound", SL \o n_pkg \o SL \o n_missing)>>

\* the directory d is named "theme", so is its parent, and it holds a file
\* "theme1.xml"
Qualifies(d) ==
    /\ EndsWith(d, SL \o n_theme \o SL \o n_theme)
    /\ (d \o SL \o n_theme1) \in disk_files

\* the path of theme1.xml in the k-th thing yielded
YieldedThemePath(k) ==
    IF walk_script = "extractor_temas" THEN yielded[k] ELSE yielded[k].theme_path

ManagerPlaces(d) ==
    <<d \o SL \o n_themeVariants, d, walk_base \o SL \o n_themeVariants>>

\* a variant manager, under either of its two names, is at the place p
ManagerAt(p) ==
    \/ (p \o SL \o n_tvm) \in disk_files
    \/ (p \o SL \o n_tvm_typo) \in disk_files

C17_FirstVariantManagerKept ==
    [][/\ (in_pc = "loop" /\ in_pc' = "loop" /\ in_i' = in_i + 1) =>
              /\ variant_manager_path # None =>
                     variant_manager_path' = variant_manager_path
              /\ variant_manager_path = None =>
                     variant_manager_path' = theme_files'.variant_manager_path
       /\ (in_pc \in {"loop", "links", "ids"} /\ in_i' = in_i) =>
              variant_manager_path' = variant_manager_path]_vars

\* the first theme had a variant manager, the second one has another one,
\* and the accumulator still holds the first
C17_Witness ==
    /\ in_pc = "loop" /\ in_i = 2
    /\ variant_manager_path = ThemeDir(1) \o SL \o n_themeVariants \o SL \o n_tvm
    /\ theme_files.variant_manager_path
           = ThemeDir(2) \o SL \o n_themeVariants \o SL \o n_tvm

\* main has run to its end over at least one theme folder
MainDone == in_pc = "exit" /\ exit_code = "0" /\ found

\* the lines of validate_theme_ids among the lines printed
IsIdLine(d) == d.kind \in {"SameId", "DistinctIds", "IdGroup"}
IdLines     == SelectSeq(out, IsIdLine)
IsErrorLine(d) == d.sev = "ERROR"

\* the id values of the themeFamily records, and the members of an id group
FamilyIds == {all_theme_families[k].id : k \in 1..Len(all_theme_families)}
MembersOf(theme_id) ==
    {k \in 1..Len(all_theme_families) : all_theme_families[k].id = theme_id}

\* the line d names the id theme_id and the source parts of its members, in
\* the order of the records
NamesGroup(d, theme_id) ==
    LET members == MembersOf(theme_id)
        nth(n)  == CHOOSE k \in members : Count({j \in members : j <= k}) = n
    IN  /\ "sources" \in DOMAIN d
        /\ d.arg = theme_id
        /\ Len(d.sources) = Count(members)
        /\ \A n \in 1..Len(d.sources) :
               d.sources[n] = all_theme_families[nth(n)].source

\* C18 as the claim has it: with more than one distinct id there is one
\* ERROR diagnostic per id group, each naming the source parts of its group.
C18_OneErrorPerIdGroup ==
    (MainDone /\ Count(FamilyIds) > 1) =>
        LET errs == SelectSeq(IdLines, IsErrorLine)
        IN  /\ Len(errs) = Count(FamilyIds)
            /\ \A theme_id \in FamilyIds :
                   \E k \in 1..Len(errs) : NamesGroup(errs[k], theme_id)

\* C18 as the code has it: with more than one distinct id, validate_theme_ids
\* prints one ERROR line, and after it one line without severity per id
\* group, in the order in which the ids first occur, each naming the id and
\* the source parts of its group.
C18_OneErrorThenOneLinePerIdGroup ==
    (MainDone /\ Count(FamilyIds) > 1) =>
        /\ Len(IdLines) = 1 + Count(FamilyIds)
        /\ IdLines[1].sev = "ERROR" /\ IdLines[1].kind = "DistinctIds"
        /\ \A k \in 2..Len(IdLines) :
               /\ IdLines[k].sev = "DETAIL"
               /\ IdLines[k].arg \in FamilyIds
               /\ NamesGroup(IdLines[k], IdLines[k].arg)
               /\ \A j \in 2..(k - 1) :
                      \E m \in MembersOf(IdLines[j].arg) :
                          \A n \in MembersOf(IdLines[k].arg) : m < n
        /\ \A theme_id \in FamilyIds :
               \E k \in 2..Len(IdLines) : IdLines[k].arg = theme_id

\* two themes with the ids {B} and {A}: main has printed the ERROR line and
\* the two lines of the groups
C18_Witness ==
    /\ MainDone
    /\ Len(all_theme_families) = 2
    /\ all_theme_families[1].id = v_idB /\ all_theme_families[2].id = v_idA
    /\ Len(IdLines) = 3
    /\ IdLines[2].arg = v_idB /\ IdLines[3].arg = v_idA

\* C19: three theme1.xml with the ids {A}, {A}, {B} give exactly one ERROR,
\* which lists {A} with the first two parts and {B} with the third; families
\* that all share one id give no ERROR but the one OK.
C19_OneErrorForTwoIds ==
    /\ (/\ MainDone
        /\ Len(all_theme_families) = 3
        /\ all_theme_families[1].id = v_idA
        /\ all_theme_families[2].id = v_idA
        /\ all_theme_families[3].id = v_idB)
       => /\ Len(SelectSeq(IdLines, IsErrorLine)) = 1
          /\ IdLines[1].sev = "ERROR"
          /\ Len(IdLines) = 3
          /\ IdLines[2].arg = v_idA
          /\ IdLines[2].sources = <<all_theme_families[1].source,
                                    all_theme_families[2].source>>
          /\ IdLines[3].arg = v_idB
          /\ IdLines[3].sources = <<all_theme_families[3].source>>
    /\ (MainDone /\ Count(FamilyIds) = 1)
       => /\ SelectSeq(IdLines, IsErrorLine) = <<>>
          /\ Len(IdLines) = 1 /\ IdLines[1].sev = "OK"

\* the three theme folders of the package hold the ids {A}, {A}, {B} and
\* main has ended
C19_Witness ==
    /\ MainDone
    /\ Len(all_theme_families) = 3
    /\ all_theme_families[1] = [name |-> v_name, id |-> v_idA, vid |-> v_vid9,
                                source |-> ThemeDir(1) \o SL \o n_theme1]
    /\ all_theme_families[2].id = v_idA
    /\ all_theme_families[2].source = ThemeDir(2) \o SL \o n_theme1
    /\ all_theme_families[3].id = v_idB
    /\ all_theme_families[3].source = ThemeDir(3) \o SL \o n_theme1
    /\ Len(IdLines) = 3

\* the lines of validate_variant_vids among the lines printed
IsVidLine(d) == d.kind \in {"VidNotFound", "VidRepeated", "VidMatches"}
VidLines     == SelectSeq(out, IsVidLine)

\* the themeFamily records that share the vid of a variant
SharersOf(vid) ==
    {k \in 1..Len(all_theme_families) : all_theme_families[k].vid = vid}

\* C20: once validate_variant_vids has run, it has printed one line per
\* themeVariant, in the order of the records; with n the number of
\* themeFamily records of the vid of the variant, the line is the ERROR
\* "not in any theme1.xml" for n = 0, the ERROR "repeated" with the n source
\* parts for n > 1, and the OK with the name and the source part of the
\* family for n = 1.
C20_OneLinePerVariant ==
    (in_pc \in {"links", "ids"} \/ (MainDone /\ Truthy(variant_manager_path))) =>
        /\ Len(VidLines) = Len(variants)
        /\ \A k \in 1..Len(variants) :
               LET sharers == SharersOf(variants[k].vid)
                   n       == Count(sharers)
                   nth(m)  == CHOOSE j \in sharers :
                                  Count({i \in sharers : i <= j}) = m
                   line    == VidLines[k]
               IN  /\ line.arg = variants[k].vid
                   /\ n = 0 => line.sev = "ERROR" /\ line.kind = "VidNotFound"
                   /\ n > 1 =>
                          /\ line.sev = "ERROR" /\ line.kind = "VidRepeated"
                          /\ Len(line.sources) = n
                          /\ \A m \in 1..n :
                                 line.sources[m] = all_theme_families[nth(m)].source
                   /\ n = 1 =>
                          /\ line.sev = "OK" /\ line.kind = "VidMatches"
                          /\ line.name = all_theme_families[nth(1)].name
                          /\ line.source = all_theme_families[nth(1)].source

\* two themes declare the vid "9", a third one declares none; the variants
\* "9" and "7" have been checked: "9" is repeated, "7" is in no theme
C20_Witness ==
    /\ in_pc = "links"
    /\ Len(all_theme_families) = 3
    /\ all_theme_families[1].vid = v_vid9
    /\ all_theme_families[2].vid = None
    /\ all_theme_families[3].vid = v_vid9
    /\ Len(variants) = 2
    /\ variants[1].vid = v_vid9 /\ variants[2].vid = v_vid7
    /\ Len(out) = 2
    /\ out[1].kind = "VidRepeated" /\ Len(out[1].sources) = 2
    /\ out[2].kind = "VidNotFound"


\* the themeVariant elements of the package's themeVariantManager.xml: the
\* one of the root, else the one main read
DeclaredVariants == IF root_manager.exists THEN root_manager.variants ELSE variants

\* the vid values some themeVariant declares and no parsed themeFamily has
OrphanVids ==
    {DeclaredVariants[k].vid : k \in 1..Len(DeclaredVariants)}
        \ ({None} \cup {all_theme_families[k].vid : k \in 1..Len(all_theme_families)})

NotFoundLines(v) ==
    {k \in 1..Len(out) : out[k].kind = "VidNotFound" /\ out[k].arg = v}

Declaring(v) ==
    {k \in 1..Len(DeclaredVariants) : DeclaredVariants[k].vid = v}

\* C21: when main has ended with status 0 over a package (with any number of
\* theme1.xml parts, zero included), every vid declared by a themeVariant of
\* its themeVariantManager.xml and by no themeFamily has its ERROR line "vid
\* not found", one per themeVariant that declares it.
C21_OrphanVidReported ==
    (in_pc = "exit" /\ exit_code = "0" /\ in_i = n_themes)
        => \A v \in OrphanVids :
               /\ NotFoundLines(v) # {}
               /\ Cardinality(NotFoundLines(v)) = Cardinality(Declaring(v))

\* the same for the packages with at least one theme1.xml
C21_OrphanVidReportedWithThemes ==
    (in_pc = "exit" /\ exit_code = "0" /\ in_i = n_themes /\ found)
        => \A v \in OrphanVids :
               Cardinality(NotFoundLines(v)) = Cardinality(Declaring(v))


\* C22: a step of main that prints a diagnostic of the cross-reference
\* checks (validate_variant_vids, validate_variant_manager_links,
\* validate_theme_ids) is taken only when the loop over find_theme_files has
\* ended and the body has run for every discovered theme1.xml, and it leaves
\* all_theme_families as the loop accumulated it.
C22_ChecksAfterDiscovery ==
    [][out' # out =>
          /\ in_i = n_themes
          /\ processed = 1..n_themes
          /\ found
          /\ all_theme_families' = all_theme_families]_vars

C22_Witness ==
    /\ in_pc = "exit" /\ n_themes >= 2 /\ processed = 1..n_themes
    /\ Len(all_theme_families) >= 2
    /\ \E k \in 1..Len(out) : out[k].kind \in {"VidMatches", "VidNotFound", "VidRepeated"}
    /\ \E k \in 1..Len(out) : out[k].kind \in {"SameId", "DistinctIds"}


\* the step-by-step validators of SpecValidators return what the one-call
\* operators of SpecRerun compute from empty sets
StepwiseIsOneCall ==
    /\ pc = "returned" =>
           returned = validate_rels_file(paths[cur], rels_doc, {}, fs).errors
    /\ ct_pc = "returned" =>
           ct_returned = validate_content_types(ct_doc, ct_base,
                             [extensions |-> {}, partnames |-> {}], ct_fs).errors

C24_ErrorMeansFailureStatus ==
    (in_pc = "exit" /\ \E k \in 1..Len(out) : out[k].sev = "ERROR")
        => exit_code # "0"


\* C25: validate_rels_file checks an element of local name Relationship
\* whatever its namespace: the diagnostics of a call are those of the file
\* with all its Relationship elements taken, in document order.
C25_RelationshipAnyNamespace ==
    (rr_validator = "validate_rels_file" /\ Len(rr_runs) >= 1)
        => rr_runs[1] = validate_rels_file(rr_input.path,
                            [wf |-> rr_input.doc.wf, rels |-> Attributes(rr_input.doc.elems)],
                            {}, rr_input.disk).errors

\* the concatenation of the sequences f[1], ..., f[n]
RECURSIVE CatSeq(_, _)
CatSeq(f, n) == IF n = 0 THEN <<>> ELSE CatSeq(f, n - 1) \o f[n]

\* the kinds of the [ERROR] entries of a list, in order
ErrorKinds(errs) ==
    LET IsError(e) == e.sev = "ERROR"
        sel == SelectSeq(errs, IsError)
    IN  [k \in 1..Len(sel) |-> sel[k].kind]

\* what the claim expects of element k, from its attributes: Id, then Type,
\* then Target presence, then target existence
ExpectedRelKinds(k) ==
    (IF ~Truthy(rels_doc.rels[k].Id) THEN <<"NoId">>
     ELSE IF IdBad(k) THEN <<"DupId">> ELSE <<>>)
    \o (IF TypeBad(k) THEN <<"NoType">> ELSE <<>>)
    \o (IF TargetBad(k) THEN <<"NoTarget">>
        ELSE IF TargetLost(k) THEN <<"NotFound">> ELSE <<>>)

ExpectedDefaultKinds(k) ==
    (IF ~Truthy(ct_doc.defaults[k].Extension) THEN <<"NoExtension">>
     ELSE IF ExtensionBad(k) THEN <<"DupExtension">> ELSE <<>>)
    \o (IF ~Truthy(ct_doc.defaults[k].ContentType)
        THEN <<"NoDefaultContentType">> ELSE <<>>)

ExpectedOverrideKinds(k) ==
    (IF PartNameMissing(k) THEN <<"NoPartName">>
     ELSE (IF PartNameRepeated(k) THEN <<"DupPartName">> ELSE <<>>)
          \o (IF PartLost(k) THEN <<"NotFound">> ELSE <<>>))
    \o (IF ~Truthy(ct_doc.overrides[k].ContentType)
        THEN <<"NoOverrideContentType">> ELSE <<>>)

\* C26: the errors of validate_rels_file are those of its Relationship
\* elements in document order and, within one element, in the order Id,
\* Type, Target presence, target existence; the errors of
\* validate_content_types are those of the Default elements in document
\* order followed by those of the Override elements in document order.
C26_DiagnosticsInFixedOrder ==
    /\ (RelsRunning /\ rels_doc.wf) =>
           ErrorKinds(errors) = CatSeq([k \in 1..idx |-> ExpectedRelKinds(k)], idx)
    /\ (CTRunning /\ ct_doc.wf) =>
           LET nd == IF ct_pc = "defaults" THEN ct_idx ELSE Len(ct_doc.defaults)
               no == IF ct_pc = "defaults" THEN 0 ELSE ct_idx
           IN  ErrorKinds(ct_errors) =
                   CatSeq([k \in 1..nd |-> ExpectedDefaultKinds(k)], nd)
                   \o CatSeq([k \in 1..no |-> ExpectedOverrideKinds(k)], no)

C26_Witness ==
    /\ pc = "returned" /\ rels_doc.wf /\ idx = 2
    /\ Len(ExpectedRelKinds(1)) >= 2 /\ Len(ExpectedRelKinds(2)) >= 2
    /\ ExpectedRelKinds(1) # ExpectedRelKinds(2)
    /\ Len(errors) >= 4


\* C27: validate_variant_vids prints [OK] for a themeVariant only if the
\* variant has a vid and exactly one themeFamily of the package has that
\* vid; a themeVariant without vid is never reported as matching.
C27_OkOnlyForUniqueVid ==
    \A k \in 1..Len(out) :
        out[k].kind = "VidMatches" =>
            /\ out[k].arg # None
            /\ Cardinality({j \in 1..Len(all_theme_families) :
                               all_theme_families[j].vid = out[k].arg}) = 1


Loaded == last_left_entries # NoEntries /\ last_right_entries # NoEntries

\* C28: a toggle of "Mostrar solo diferencias" made when a comparison is
\* loaded leaves the last scanned entries of both sides, comparison_data and
\* difference_paths as they are and renders the two trees from them,
\* whatever the folders hold on disk by then; made when nothing is loaded it
\* is update_comparison that runs.
C28_FilterToggleOnlyRenders ==
    [][show_differences_only' # show_differences_only =>
          IF Loaded
          THEN /\ last_left_entries' = last_left_entries
               /\ last_right_entries' = last_right_entries
               /\ comparison_data' = comparison_data
               /\ difference_paths' = difference_paths
               /\ left_tree' = _refresh_trees(last_left_entries, show_differences_only',
                                              comparison_data, difference_paths)
               /\ right_tree' = _refresh_trees(last_right_entries, show_differences_only',
                                               comparison_data, difference_paths)
          ELSE update_comparison(left_path, right_path, show_differences_only')]_vars

\* the filter is on, the trees show fewer nodes than were scanned, and the
\* left folder is no longer what was scanned
C28_Witness ==
    /\ Loaded /\ show_differences_only
    /\ last_left_entries # _scan_directory(left_disk, p_L)
    /\ DOMAIN left_tree # DOMAIN last_left_entries
    /\ DOMAIN left_tree # {Empty}

\* C29: once a comparison is built, difference_paths holds with every path
\* all its ancestor directories up to the root path ""; and with the filter
\* on, every node of the two trees hangs under the node of its parent
\* directory.
C29_DifferencesClosedUnderParent ==
    Loaded =>
        /\ \A p \in difference_paths :
               p # Empty => dirname(p) \in difference_paths
        /\ difference_paths # {} => Empty \in difference_paths
        /\ show_differences_only =>
               /\ \A p \in DOMAIN left_tree \ {Empty} : left_tree[p] = dirname(p)
               /\ \A p \in DOMAIN right_tree \ {Empty} : right_tree[p] = dirname(p)

\* a directory that is the same on both sides is in difference_paths for
\* what it holds, and a node of the filtered left tree hangs under it
C29_Witness ==
    /\ Loaded /\ show_differences_only
    /\ \E p \in difference_paths \ {Empty} :
          /\ ~comparison_data[p].differs
          /\ \E q \in DOMAIN left_tree \ {Empty} : left_tree[q] = p
=============================================================================
